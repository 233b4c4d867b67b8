----------------------------- MODULE MemorySleep ----------------------------
(***************************************************************************)
(* learner/memory_sleep.py as auto_sleep.py runs it: the rows the memory   *)
(* store keeps of past runs are grouped by structure, and a group seen     *)
(* often enough becomes a proposal for later runs.                         *)
(*                                                                         *)
(* A row is [run, type, rec].  No run writes background, uncertainty or    *)
(* temporal records of its own any more, so their phases have nothing to   *)
(* group.  A confidence is a function of the counts a proposal carries.    *)
(***************************************************************************)
EXTENDS Naturals, Sequences, FiniteSets, SequencesExt, Picks, ContextRoles

CONSTANTS MinSources,   \* min_sources
          MaxProposals, \* max_proposals
          MaxSources    \* max_sources_per_proposal

ASSUME MemorySleepAssumption ==
    /\ MinSources \in Nat \ {0} /\ MaxProposals \in Nat /\ MaxSources \in Nat \ {0}

\* records_from_batch_record: roles stay in the report, nodes and the
\* authority of the variables go to memory.
RecordsOf(run, nodes, authority) ==
    [k \in 1 .. Len(nodes) |-> [run |-> run, type |-> "context_role", rec |-> nodes[k]]]
    \o [k \in 1 .. Len(authority) |->
           [run |-> run, type |-> "authority_strength", rec |-> authority[k]]]

-----------------------------------------------------------------------------
(* Grouping                                                                *)

\* Mutant: every row of memory is taken for a run.
RowsApart(store) == [k \in 1 .. Len(store) |-> <<store[k]>>]

\* to_sleep_rows: whatever was appended under one run id is one run.
ToSleepRows(store) ==
    LET runs == Distinct([k \in 1 .. Len(store) |-> store[k].run])
    IN  [k \in 1 .. Len(runs) |-> Picked(store, {i \in DOMAIN store : store[i].run = runs[k]})]

Extract(rows, type) ==
    FlattenSeq([k \in 1 .. Len(rows) |->
        LET ofType == Picked(rows[k], {i \in DOMAIN rows[k] : rows[k][i].type = type})
        IN  [j \in 1 .. Len(ofType) |-> [rec |-> ofType[j].rec, run |-> k]]])

\* A record of no variable, or of no authority state, joins no group.
ContextKey(rec) == [var |-> rec.target, kind |-> rec.kind, edges |-> rec.edges]

ContextObservations(rows) ==
    LET all == Extract(rows, "context_role")
    IN  Picked(all, {i \in DOMAIN all : all[i].rec.target # NoVar})

AuthorityKey(rec) == [state |-> rec.state, reason |-> rec.reason]

AuthorityObservations(rows) ==
    LET all == Extract(rows, "authority_strength")
    IN  Picked(all, {i \in DOMAIN all : all[i].rec.state # ""})

\* The groups, the largest first, equals in order of appearance; keys[k] is the
\* anchor of observations[k].
Groups(observations, keys) ==
    LET total == Len(observations)
        found == Distinct(keys)
        places(key) == {i \in 1 .. total : keys[i] = key}
        ofSize(n) == Picked(found, {k \in DOMAIN found : Cardinality(places(found[k])) = n})
        ordered == FlattenSeq([k \in 1 .. total |-> ofSize(total + 1 - k)])
    IN  [k \in 1 .. Len(ordered) |->
            [key |-> ordered[k], seen |-> Picked(observations, places(ordered[k]))]]

-----------------------------------------------------------------------------
(* Proposals                                                               *)

Capped(seen) == SubSeq(seen, 1, LeastOf(Len(seen), MaxSources))

RunsSeen(seen) == Cardinality({o.run : o \in ToSet(seen)})

SuggestedUse(kind, runs, anchored, patterned) ==
    CASE kind = "giant_cluster_subfamily" -> "no_runtime_use"
      [] kind # "giant_cluster_subfamily" /\ runs >= 2 /\ patterned -> "ranking_hint"
      [] kind # "giant_cluster_subfamily" /\ runs >= 2 /\ ~patterned /\ anchored ->
             "clustering_prior"
      [] OTHER -> "feature_only"

\* A proposal is the row of the file it becomes.
AuthorityProposal(group) ==
    LET seen == Capped(group.seen)
    IN  [whole |-> TRUE, hidden |-> FALSE, id |-> <<>>,
         kind |-> "authority_debt_family", key |-> group.key,
         vars |-> {o.rec.var : o \in ToSet(seen)}, contexts |-> {},
         count |-> Len(seen), runs |-> RunsSeen(seen), use |-> "feature_only"]

ContextProposal(group) ==
    LET seen == Capped(group.seen)
    IN  [whole |-> TRUE, hidden |-> FALSE, id |-> <<>>,
         kind |-> "context_role_recurrence", key |-> group.key,
         vars |-> {group.key.var}, contexts |-> {},
         count |-> Len(seen), runs |-> RunsSeen(seen),
         use |-> SuggestedUse("context_role_recurrence", RunsSeen(seen),
                              group.key.edges # {}, FALSE)]

\* Proposals are numbered by their place: another sleep gives the same id to
\* another structure.
Numbered(proposals) ==
    [k \in 1 .. Len(proposals) |-> [proposals[k] EXCEPT !.id = <<k, proposals[k].kind>>]]

BuildProposals(rows) ==
    LET enough(groups) == Picked(groups, {k \in DOMAIN groups : Len(groups[k].seen) >= MinSources})
        authorities == AuthorityObservations(rows)
        contexts == ContextObservations(rows)
        debts == enough(Groups(authorities,
                     [k \in 1 .. Len(authorities) |-> AuthorityKey(authorities[k].rec)]))
        roles == enough(Groups(contexts,
                     [k \in 1 .. Len(contexts) |-> ContextKey(contexts[k].rec)]))
        built == [k \in 1 .. Len(debts) |-> AuthorityProposal(debts[k])]
                 \o [k \in 1 .. Len(roles) |-> ContextProposal(roles[k])]
    IN  Numbered(SubSeq(built, 1, LeastOf(Len(built), MaxProposals)))

RunSleep(store) == BuildProposals(ToSleepRows(store))

=============================================================================
