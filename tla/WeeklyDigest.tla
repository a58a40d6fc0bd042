------------------------------ MODULE WeeklyDigest ------------------------------
(* The weekly email of one status page. Every instance of the server looks for   *)
(* pages that are due, claims the week on the row, lists the subscribers and     *)
(* mails them one by one; owners, subscribers and other instances act between.   *)
EXTENDS ActiveClients

CONSTANTS
  Emails,     \* addresses
  Instances,  \* servers and restarted timers that run at the same time
  Gap,        \* MIN_GAP_MS
  MaxDay      \* bound on the clock

VARIABLES
  weekly,      \* statusDigestEnabled
  lastSent,    \* statusDigestLastSentAt, or None
  subscriber,  \* subscriber[s]: "none" (no row), "on", "off" (unsubscribed)
  run,         \* run[i]: a pass over this page under way
  day,         \* the clock
  \* History:
  mails        \* mails[s][d]: emails to s that a claim of day d has sent

digestVars == <<weekly, lastSent, subscriber, run, day, mails>>

Days == 0 .. MaxDay
Run ==
  [pc : {"claim", "list"}, now : Days] \cup [pc : {"send"}, now : Days, to : SUBSET Emails]

DigestTypeOK ==
  /\ weekly \in BOOLEAN /\ lastSent \in Days \cup {None}
  /\ subscriber \in [Emails -> {"none", "on", "off"}]
  /\ run \in [Instances -> Run \cup {Idle}]
  /\ day \in Days /\ mails \in [Emails -> [Days -> Nat]]

-----------------------------------------------------------------------------
\* The email needs a live link; switching it off needs nothing.
SetWeekly(on) ==
  /\ Call
  /\ on => live[Page]
  /\ weekly' = on
  /\ UNCHANGED <<lastSent, subscriber, run, day, mails>>

Become(s, from, to) ==
  /\ subscriber[s] \in from
  /\ subscriber' = [subscriber EXCEPT ![s] = to]
  /\ UNCHANGED <<weekly, lastSent, run, day, mails>>

\* A new row, or one that comes back. The limit of the plan is left out.
AddSubscriber(s) == Call /\ Become(s, {"none", "off"}, "on")
Unsubscribe(s) == Call /\ Become(s, {"on"}, "off")
RemoveSubscriber(s) == Call /\ Become(s, {"on", "off"}, "none")

RunGoes(i, to) == run' = [run EXCEPT ![i] = to]

\* isDue, on any weekday the owner may have chosen.
Due(now) ==
  /\ weekly /\ live[Page]
  /\ lastSent # None => lastSent + Gap <= now

\* runDigests: a candidate that is due.
RunStart(i) ==
  /\ run[i] = Idle
  /\ Due(day) /\ \E s \in Emails : subscriber[s] = "on"
  /\ RunGoes(i, [pc |-> "claim", now |-> day])
  /\ UNCHANGED <<calls, weekly, lastSent, subscriber, day, mails>>

\* Seeded fault: the week is claimed by whoever found it due.
ClaimBlindly(i) ==
  /\ run[i].pc = "claim" /\ weekly /\ live[Page]
  /\ lastSent' = run[i].now
  /\ RunGoes(i, [run[i] EXCEPT !.pc = "list"])
  /\ UNCHANGED <<calls, weekly, subscriber, day, mails>>

Claim(i) ==
  /\ run[i].pc = "claim" /\ weekly /\ live[Page]
  /\ lastSent # None => lastSent + Gap < run[i].now
  /\ lastSent' = run[i].now
  /\ RunGoes(i, [run[i] EXCEPT !.pc = "list"])
  /\ UNCHANGED <<calls, weekly, subscriber, day, mails>>

List(i) ==
  /\ run[i].pc = "list"
  /\ RunGoes(i, [pc |-> "send", now |-> run[i].now, to |-> {s \in Emails : subscriber[s] = "on"}])
  /\ UNCHANGED <<calls, weekly, lastSent, subscriber, day, mails>>

\* An email that cannot be sent is logged and counts as sent.
Send(i, s) ==
  /\ run[i].pc = "send" /\ s \in run[i].to
  /\ mails' = [mails EXCEPT ![s][run[i].now] = @ + 1]
  /\ RunGoes(i, [run[i] EXCEPT !.to = @ \ {s}])
  /\ UNCHANGED <<calls, weekly, lastSent, subscriber, day>>

\* Nothing to tell, the claim found no row, everyone is mailed, or the server stops.
RunEnds(i) ==
  /\ run[i] # Idle
  /\ RunGoes(i, Idle)
  /\ UNCHANGED <<calls, weekly, lastSent, subscriber, day, mails>>

NextDay ==
  /\ day < MaxDay /\ day' = day + 1
  /\ UNCHANGED <<calls, weekly, lastSent, subscriber, run, mails>>

DigestInit ==
  /\ weekly = FALSE /\ lastSent = None
  /\ subscriber = [s \in Emails |-> "none"]
  /\ run = [i \in Instances |-> Idle] /\ day = 0
  /\ mails = [s \in Emails |-> [d \in Days |-> 0]]

RunStep(i) ==
  \/ RunStart(i)
  \/ Claim(i)
  \/ List(i)
  \/ \E s \in Emails : Send(i, s)
  \/ RunEnds(i)

DigestNext ==
  \/ \E on \in BOOLEAN : SetWeekly(on)
  \/ \E s \in Emails : AddSubscriber(s) \/ Unsubscribe(s) \/ RemoveSubscriber(s)
  \/ \E i \in Instances : RunStep(i)
  \/ NextDay

-----------------------------------------------------------------------------
\* However many instances run, and restart, nobody is mailed twice for one claim, and the claims
\* that mailed somebody are more than the gap apart (statusDigest.service.js 98-109, jobs/statusDigest.js).
OneMailAWeek ==
  \A s \in Emails, d \in Days :
    /\ mails[s][d] <= 1
    /\ mails[s][d] > 0 => \A e \in Days : e # d /\ mails[s][e] > 0 => d + Gap < e \/ e + Gap < d
=============================================================================
