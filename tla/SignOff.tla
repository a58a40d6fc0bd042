-------------------------------- MODULE SignOff --------------------------------
(* The milestones of one status page and the approvals clients give them. An    *)
(* edit reads the milestones and writes later; whether the words of a milestone *)
(* change, which gives it a new version, is decided by what was read. A client  *)
(* reads the milestone and the approval is stored later, for what was read.     *)
EXTENDS ActiveClients

CONSTANTS
  Milestones,  \* ids that may ever be used
  Words        \* titles, with their dates

VARIABLES
  milestone,  \* milestone[m]: the row, or None
  approvals,  \* approvals that are stored
  edit,       \* edit[r]: an edit or an approval under way, with what it has read
  named,      \* ids in use or used
  \* History:
  putBack     \* milestones given back words their edit had read, over others

signOffVars == <<milestone, approvals, edit, named, putBack>>

Milestone == [words : Words, version : Nat]
Approval == [id : Milestones, words : Words, version : Nat]
\* What an edit of the list asks for: the words of the milestones to keep.
Kept == [Milestones -> Words \cup {None}]
Edit ==
  [pc : {"list"}, kept : Kept, new : Words \cup {None}, read : [Milestones -> Milestone \cup {None}]] \cup
  [pc : {"first"}, id : Milestones \cup {None}, words : Words \cup {None}] \cup
  [pc : {"approve"}, approval : Approval]

SignOffTypeOK ==
  /\ milestone \in [Milestones -> Milestone \cup {None}]
  /\ approvals \subseteq Approval
  /\ edit \in [Slots -> Edit \cup {Idle}]
  /\ named \subseteq Milestones /\ putBack \subseteq Milestones

-----------------------------------------------------------------------------
Present(m) == milestone[m] # None

EditGoes(r, e) == edit' = [edit EXCEPT ![r] = e]

\* A milestone that is gone leaves its approvals without one (onDelete: SetNull).
ApprovalsOf(rows) == {a \in approvals : rows[a.id] # None}

\* Seeded fault: new words do not make a new version.
SameVersion(old, words, current) == current.version

\* The version a row gets from an edit that has read `old` and writes `words`.
Version(old, words, current) ==
  IF words # old.words THEN current.version + 1 ELSE current.version

\* setMilestones. Words are kept for ids that are on the page, and one milestone may be new.
SetStart(r, kept, new) ==
  /\ edit[r] = Idle /\ Call
  /\ \A m \in Milestones : kept[m] # None => Present(m)
  /\ EditGoes(r, [pc |-> "list", kept |-> kept, new |-> new, read |-> milestone])
  /\ UNCHANGED <<milestone, approvals, named, putBack>>

\* The rows a list leaves behind; an id nobody has used is taken for the new milestone.
Listed(e, n) ==
  [m \in Milestones |->
     IF e.kept[m] # None
       THEN [words |-> e.kept[m], version |-> Version(e.read[m], e.kept[m], milestone[m])]
     ELSE IF m = n THEN [words |-> e.new, version |-> 0]
     ELSE None]

SetWrite(r, n) ==
  LET e == edit[r]
      rows == Listed(e, n)
      keeps == {m \in Milestones : e.kept[m] # None}
  IN
  /\ e.pc = "list"
  /\ \A m \in keeps : Present(m)
  /\ IF e.new = None THEN n = None ELSE n \in Milestones \ named
  /\ milestone' = rows
  /\ approvals' = ApprovalsOf(rows)
  /\ named' = named \cup ({n} \ {None})
  /\ putBack' = {m \in putBack \cap keeps : rows[m].version = milestone[m].version} \cup
                {m \in keeps : e.kept[m] = e.read[m].words /\ e.kept[m] # milestone[m].words}
  /\ EditGoes(r, Idle)
  /\ UNCHANGED calls

\* applyFirstMilestone: the words of the first milestone (any of them: positions are left out), or
\* None to remove it.
FirstStart(r, words) ==
  /\ edit[r] = Idle /\ Call
  /\ \/ /\ \A m \in Milestones : ~Present(m)
        /\ words # None
        /\ EditGoes(r, [pc |-> "first", id |-> None, words |-> words])
     \/ \E m \in Milestones :
          /\ Present(m) /\ milestone[m].words # words
          /\ EditGoes(r, [pc |-> "first", id |-> m, words |-> words])
  /\ UNCHANGED <<milestone, approvals, named, putBack>>

FirstChange(r) ==
  LET m == edit[r].id IN
  /\ edit[r].pc = "first" /\ m # None /\ Present(m) /\ edit[r].words # None
  /\ milestone' = [milestone EXCEPT ![m] = [words |-> edit[r].words, version |-> @.version + 1]]
  /\ putBack' = putBack \ {m}
  /\ EditGoes(r, Idle)
  /\ UNCHANGED <<approvals, named, calls>>

FirstRemove(r) ==
  LET m == edit[r].id IN
  /\ edit[r].pc = "first" /\ m # None /\ Present(m) /\ edit[r].words = None
  /\ milestone' = [milestone EXCEPT ![m] = None]
  /\ approvals' = ApprovalsOf(milestone')
  /\ putBack' = putBack \ {m}
  /\ EditGoes(r, Idle)
  /\ UNCHANGED <<named, calls>>

FirstCreate(r, n) ==
  /\ edit[r].pc = "first" /\ edit[r].id = None
  /\ n \notin named /\ named' = named \cup {n}
  /\ milestone' = [milestone EXCEPT ![n] = [words |-> edit[r].words, version |-> 0]]
  /\ EditGoes(r, Idle)
  /\ UNCHANGED <<approvals, putBack, calls>>

\* feedback.submit. Other answers can only hide an approval, and are left out.
ApproveStart(r, m) ==
  /\ edit[r] = Idle /\ Call
  /\ live[Page] /\ Present(m)
  /\ EditGoes(r, [pc |-> "approve", approval |->
                    [id |-> m, words |-> milestone[m].words, version |-> milestone[m].version]])
  /\ UNCHANGED <<milestone, approvals, named, putBack>>

\* Seeded fault: the approval counts for the version there is when it is stored.
StoreForCurrent(r) ==
  LET a == edit[r].approval IN
  /\ edit[r].pc = "approve" /\ Present(a.id)
  /\ approvals' = approvals \cup {[a EXCEPT !.version = milestone[a.id].version]}
  /\ EditGoes(r, Idle)
  /\ UNCHANGED <<milestone, named, putBack, calls>>

ApproveStore(r) ==
  /\ edit[r].pc = "approve" /\ Present(edit[r].approval.id)
  /\ approvals' = approvals \cup {edit[r].approval}
  /\ EditGoes(r, Idle)
  /\ UNCHANGED <<milestone, named, putBack, calls>>

RemoveFeedback(a) ==
  /\ a \in approvals
  /\ approvals' = approvals \ {a}
  /\ UNCHANGED <<milestone, edit, named, putBack, calls>>

\* A row is gone and the transaction is rolled back, the daily cap is reached, or the server stops.
EditEnds(r) ==
  /\ edit[r] # Idle
  /\ EditGoes(r, Idle)
  /\ UNCHANGED <<milestone, approvals, named, putBack, calls>>

SignOffInit ==
  /\ milestone = [m \in Milestones |-> None] /\ approvals = {}
  /\ edit = [r \in Slots |-> Idle] /\ named = {} /\ putBack = {}

EditStep(r) ==
  \/ \E kept \in Kept, new \in Words \cup {None} : SetStart(r, kept, new)
  \/ \E n \in Milestones \cup {None} : SetWrite(r, n)
  \/ \E words \in Words \cup {None} : FirstStart(r, words)
  \/ FirstChange(r)
  \/ FirstRemove(r)
  \/ \E n \in Milestones : FirstCreate(r, n)
  \/ \E m \in Milestones : ApproveStart(r, m)
  \/ ApproveStore(r)
  \/ EditEnds(r)

SignOffNext ==
  \/ \E r \in Slots : EditStep(r)
  \/ \E a \in approvals : RemoveFeedback(a)

-----------------------------------------------------------------------------
Stands(a) == milestone[a.id].version = a.version

\* An approval that counts for a milestone was given for the words it has now, however edits and
\* approvals overlap; the exception is an edit that puts back, without a new version, words that
\* another one had changed since it read them (schema.prisma 216-219, workspace.service.js 766).
ApprovedWordsStand ==
  \A a \in approvals :
    Present(a.id) /\ Stands(a) /\ a.id \notin putBack => milestone[a.id].words = a.words
=============================================================================
