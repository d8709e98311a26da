----------------------------- MODULE RevisionTree -----------------------------
(***************************************************************************)
(* What the version history of a workflow promises, without files, editors *)
(* or failures: a tree of revisions that only grows, every new one the     *)
(* child of a recorded one and numbered after it; and a current revision   *)
(* that, while it can be read at all, is one of the recorded ones.         *)
(***************************************************************************)
EXTENDS Naturals

CONSTANTS Numbers, Contents, Stamps,
          NoRevision,      \* the parent of a first revision
          Unreadable       \* there is no current revision to be read

VARIABLES recorded, current

Ids       == Numbers \X Contents
Revisions == [number : Numbers, content : Contents, prev : Ids \cup {NoRevision},
              stamp : Stamps]

Id(g) == <<g.number, g.content>>

Init ==
    /\ recorded \in {{}} \cup {{g} : g \in {h \in Revisions : h.number = 1
                                                  /\ h.prev = NoRevision}}
    /\ current \in recorded \cup {Unreadable}

\* g is a first revision, or the child of a recorded one.
Extends(g) ==
    IF g.prev = NoRevision
    THEN g.number = 1
    ELSE \E h \in recorded : Id(h) = g.prev /\ g.number = h.number + 1

Record(g) ==
    /\ \A h \in recorded : Id(h) # Id(g)
    /\ Extends(g)
    /\ recorded' = recorded \cup {g}
    /\ UNCHANGED current

MakeCurrent ==
    /\ current' \in recorded \cup {Unreadable}
    /\ UNCHANGED recorded

Next == MakeCurrent \/ \E g \in Revisions : Record(g)

Spec == Init /\ [][Next]_<<recorded, current>>
================================================================================
