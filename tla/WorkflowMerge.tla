----------------------------- MODULE WorkflowMerge -----------------------------
(***************************************************************************)
(* Merging a recorded source workflow into the canonical one, or keeping   *)
(* it as a new one (src/src/product/store.ts, workflow-merge-resolution    *)
(* .ts): the canonical graph gets a revision, a resolution file beside the *)
(* source records the decision, and only then the product state hides the  *)
(* source. One source, one proposal; the store runs these calls through    *)
(* its queue, so they are saves of the writer Product.                     *)
(***************************************************************************)
EXTENDS WorkflowRevisions

CONSTANTS Product, NoProposal

ASSUME ProductIsAWriter == Product \in Writers

VARIABLES
    proposal,      \* NoProposal or the revision and content it is bound to
    resolution,    \* the resolution file: "none", "torn" or the decision
    hidden,        \* the source has a tombstone
    told           \* a caller was told that the merge is done

mergeVars == <<proposal, resolution, hidden, told>>

Proposals == [base : Ids, content : Contents]

ASSUME NoProposalIsNone == NoProposal \notin Proposals

MergeTypeOK ==
    /\ TypeOK
    /\ proposal \in Proposals \cup {NoProposal}
    /\ resolution \in {"none", "torn", "create_new", "merge"}
    /\ hidden \in BOOLEAN
    /\ told \in BOOLEAN

MergeInit ==
    /\ Init
    /\ proposal = NoProposal
    /\ resolution = "none"
    /\ hidden = FALSE
    /\ told = FALSE

\* runLearnWorkflowGraph: a proposal for the current canonical revision, of its
\* workflow (assertMergedGraphIdentity).
Propose(content) ==
    /\ proposal = NoProposal
    /\ SameWorkflow(content)
    /\ proposal' = [base |-> Id(head), content |-> content]
    /\ UNCHANGED <<vars, resolution, hidden, told>>

\* resolveProductWorkflowMergeBase
Applied == Readable /\ head.prev = proposal.base /\ head.content = proposal.content

Ready == Readable /\ Id(head) = proposal.base /\ ~Applied

CanDecide == proposal # NoProposal /\ ~hidden

Decides(op, at, graph) ==
    /\ Begins(Product, op, at, proposal.base, proposal.content, graph)
    /\ UNCHANGED <<head, files, acknowledged, abandoned, overlapped, faults, mergeVars>>

BeginMerge ==
    /\ CanDecide
    /\ Ready
    /\ Decides("merge", "checked", NoGraph)

\* The canonical graph holds the merge already, the decision is not recorded.
ResumeMerge ==
    /\ CanDecide
    /\ Applied
    /\ resolution \in {"none", "create_new"}
    /\ Decides("merge", "written", head)

\* Mutant: that the canonical graph holds the merge is enough to answer.
RepeatMergeUnrecorded ==
    /\ CanDecide
    /\ Applied
    /\ writers[Product] = Idle
    /\ told' = TRUE
    /\ UNCHANGED <<vars, proposal, resolution, hidden>>

\* Both are there: the call succeeds and leaves the state as it is, so a merge
\* whose last step failed or was lost to a crash is never completed by a repeat.
RepeatMerge ==
    /\ CanDecide
    /\ Applied
    /\ resolution = "merge"
    /\ writers[Product] = Idle
    /\ told' = TRUE
    /\ UNCHANGED <<vars, proposal, resolution, hidden>>

\* keepWorkflowAsNew
BeginKeep ==
    /\ CanDecide
    /\ Ready
    /\ Decides("keep", "written", NoGraph)

\* Mutant: the file names the operation instead of the decision.
DecisionByOp == writers[Product].op

Decision == IF writers[Product].op = "merge" THEN "merge" ELSE "create_new"

Deciding(at) == At(Product, at) /\ writers[Product].op \in {"merge", "keep"}

\* Mutant: the decision is recorded before the graph is merged.
TruncateResolutionEarly ==
    /\ writers[Product] # Idle
    /\ writers[Product].op \in {"merge", "keep"}
    /\ writers[Product].at \in {"checked", "written"}
    /\ resolution' = "torn"
    /\ Moves(Product, "deciding")
    /\ UNCHANGED <<head, files, acknowledged, abandoned, overlapped, begun, faults, proposal, hidden, told>>

\* writeProductWorkflowMergeResolution
TruncateResolution ==
    /\ Deciding("written")
    /\ resolution' = "torn"
    /\ Moves(Product, "deciding")
    /\ UNCHANGED <<head, files, acknowledged, abandoned, overlapped, begun, faults, proposal, hidden, told>>

FillResolution ==
    /\ Deciding("deciding")
    /\ resolution' = Decision
    /\ Moves(Product, "decided")
    /\ UNCHANGED <<head, files, acknowledged, abandoned, overlapped, begun, faults, proposal, hidden, told>>

\* Mutant: keeping the workflow as a new one hides it too.
HidesAlways == TRUE

Hides == writers[Product].op = "merge"

\* finalizeProductWorkflowMergeState, and the state is saved.
SaveDecision ==
    /\ Deciding("decided")
    /\ hidden' = Hides
    /\ told' = (told \/ writers[Product].op = "merge")
    /\ IF writers[Product].op = "merge"
       THEN Acknowledges(Product) ELSE UNCHANGED acknowledged
    /\ Returns(Product)
    /\ UNCHANGED <<head, files, abandoned, overlapped, begun, faults, proposal, resolution>>

MergeNext ==
    \/ Next /\ UNCHANGED mergeVars
    \/ \E content \in Contents : Propose(content)
    \/ BeginMerge
    \/ ResumeMerge
    \/ RepeatMerge
    \/ BeginKeep
    \/ TruncateResolution
    \/ FillResolution
    \/ SaveDecision

MergeSpec == MergeInit /\ [][MergeNext]_<<vars, mergeVars>>

----------------------------------------------------------------------------
(* Properties                                                              *)

\* The revision of the version history that holds the merge.
MergedRevisions ==
    {i \in Ids : Whole(i) /\ i[2] = proposal.content
                          /\ proposal.base \in {i, files[i].prev}}

\* A recorded decision to merge is backed by a revision of the canonical workflow,
\* whatever failed on the way (applyWorkflowMergeProposal writes the graph first).
MergesAreRecorded ==
    resolution = "merge" => MergedRevisions # {}

\* A hidden source lives on in the canonical workflow: its merge was recorded, and
\* the current revision still descends from it, unless saves overlapped or the save of
\* another workflow left it behind.
HiddenSourcesWereMerged ==
    hidden => /\ resolution = "merge"
              /\ ~overlapped /\ Readable =>
                     MergedRevisions \cap (Ancestry(Id(head)) \cup abandoned) # {}

\* Unless a write failed or the program crashed, a merge that was reported done has
\* hidden the source: the UI answers "Merged. The source card was removed and the
\* updated workflow moved to the top." (src/ui/src/App.tsx:4509). After a fault
\* RepeatMerge reports it done without hiding.
ToldMergesAreHidden == told => hidden \/ faults > 0
================================================================================
