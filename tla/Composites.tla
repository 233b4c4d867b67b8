----------------------------- MODULE Composites -----------------------------
(***************************************************************************)
(* Composite nethras (dreth/agent.py, dreth/ledger.py): two variables that *)
(* are each trass but move a third one (the witness) together hold a joint *)
(* certificate.  A dense component of such pairs is promoted to one hyper- *)
(* composite, which absorbs the pairs and gives them back when it fails.   *)
(* At the start of each cycle every certificate is replayed: while it      *)
(* passes its members are skipped, else it is revoked with their roles.    *)
(*                                                                         *)
(* The rest of a cycle is one step for each variable it touches, between   *)
(* the replays and the joint tests.                                        *)
(***************************************************************************)
EXTENDS Naturals, FiniteSets

CONSTANTS
    Vars,                \* the variables, visible from the start
    InitialVisible,      \* world.visible_count at the start
    MaxVisible,          \* bound: no more variables are revealed
    MinSize,             \* _COMPONENT_MIN_SIZE
    DensNum, DensDen,    \* _COMPONENT_MIN_DENSITY, as a fraction
    MinPasses,           \* _COMPONENT_MIN_PASSES
    Ids                  \* bound: the component_ids in use at any time

ASSUME CompositesAssumption ==
    /\ {InitialVisible, MaxVisible} \subseteq Nat
    /\ {MinSize, DensNum, DensDen, MinPasses} \subseteq Nat

VARIABLES
    visible,      \* world.visible_count
    live,         \* _live_set
    inert,        \* _inert_vars
    skipRole,     \* the role of the skip certificate of each variable
    composites,   \* ledger.composites
    absorbed,     \* ledger.absorbed_composites
    hypers,       \* ledger.hyper_composites
    covered,      \* composite_passing
    phase         \* where run_cycle stands

agent == <<visible, live, inert, skipRole>>
certs == <<composites, absorbed, hypers>>
jointVars == <<agent, certs, covered, phase>>

\* "other" is untested or noise_floor: to joint certificates they are alike.
Roles == {"tareth", "trass", "other"}
Phases == {"idle", "pairs", "cycle", "tests"}

Pairs == {S \in SUBSET Vars : \E a, b \in S : a # b /\ S = {a, b}}

\* context is the number of visible variables when the certificate was earned.
Composite == [members : Pairs, witness : Vars, context : Nat, passes : 0 .. MinPasses]
Hyper == [id : Ids, members : SUBSET Vars, witness : Vars, context : Nat]

MembersOf(cs) == UNION {c.members : c \in cs}

-----------------------------------------------------------------------------
JointInit ==
    /\ visible = InitialVisible
    /\ inert \in SUBSET Vars /\ live \in SUBSET Vars
    /\ skipRole = [v \in Vars |-> "other"]
    /\ composites = {} /\ absorbed = {} /\ hypers = {}
    /\ covered = {} /\ phase = "idle"

\* Stale context, or a witness that went trass: revoked without a probe.
Void(c) == c.context # visible \/ skipRole[c.witness] = "trass"

RestoresNothing(revoked) == {}

\* The absorbed pairs inside a revoked hyper-composite come back.
Restored(revoked) == {c \in absorbed : \E h \in revoked : c.members \subseteq h.members}

\* _check_hyper_composites: the joint probe fails for some.
CheckHypers ==
    /\ phase = "idle"
    /\ \E failing \in SUBSET {h \in hypers : ~Void(h)} :
        LET revoked == failing \cup {h \in hypers : Void(h)}
        IN /\ hypers' = hypers \ revoked
           /\ absorbed' = absorbed \ Restored(revoked)
           /\ composites' = composites \cup Restored(revoked)
           /\ covered' = MembersOf(hypers \ revoked)
    /\ phase' = "pairs"
    /\ UNCHANGED agent

HalfDormant(c) == ~(c.members \subseteq live)

\* Both members dormant: assumed to pass, without a probe.
Dormant(c) == c.members \cap live = {}

Credit(c) == [c EXCEPT !.passes = IF @ < MinPasses THEN @ + 1 ELSE @]

\* _check_composites: the same for the pairs, the restored ones included.  The
\* members of a revoked pair lose their skip certificates.
CheckComposites ==
    /\ phase = "pairs"
    /\ \E failing \in SUBSET {c \in composites : ~Dormant(c) /\ ~Void(c)} :
        LET revoked == failing \cup {c \in composites : ~Dormant(c) /\ Void(c)}
            passing == composites \ revoked
        IN /\ composites' = {Credit(c) : c \in passing}
           /\ covered' = covered \cup MembersOf(passing)
           /\ skipRole' = [v \in Vars |->
                IF v \in MembersOf(revoked) THEN "other" ELSE skipRole[v]]
    /\ phase' = "cycle"
    /\ UNCHANGED <<visible, live, inert, absorbed, hypers>>

-----------------------------------------------------------------------------
(* The rest of the cycle                                                   *)

\* The first pass gets to v: past the composite skip, and past the dormant
\* gate unless v is trass.  Its role may then change in any way.
Processed(v) == v \notin covered /\ (v \in live \/ skipRole[v] = "trass")

Process(v) ==
    /\ phase = "cycle" /\ Processed(v)
    /\ \E r \in Roles : skipRole' = [skipRole EXCEPT ![v] = r]
    /\ live' \in {live, live \cup {v}, live \ {v}}
    /\ UNCHANGED <<visible, inert, certs, covered, phase>>

\* An audit of another variable wakes v, or contradicts its trass certificate.
Touch(v) ==
    /\ phase = "cycle"
    /\ \/ live' = live \cup {v} /\ inert' \in {inert, inert \ {v}} /\ UNCHANGED skipRole
       \/ /\ skipRole[v] = "trass" /\ skipRole' = [skipRole EXCEPT ![v] = "other"]
          /\ UNCHANGED <<live, inert>>
    /\ UNCHANGED <<visible, certs, covered, phase>>

StartTests ==
    /\ phase = "cycle" /\ phase' = "tests"
    /\ UNCHANGED <<agent, certs, covered>>

\* The pair is tested: two trass ancestors of a failed variable, or, in the
\* proactive scan, trass or inert variables without a composite.
Testable(pair) ==
    \/ \A v \in pair : skipRole[v] = "trass"
    \/ /\ \A v \in pair : skipRole[v] = "trass" \/ v \in inert
       /\ \A c \in composites : c.members # pair

\* _test_joint_false_trass with the verdict tareth: install_composite replaces
\* a composite of the same pair, and trass certificates that were issued
\* without sources (flagged) lose their role.
JointTest(pair) ==
    /\ phase = "tests" /\ Testable(pair)
    /\ \E w \in Vars \ pair :
        /\ skipRole[w] = "tareth"
        /\ composites' = {c \in composites : c.members # pair} \cup
              {[members |-> pair, witness |-> w, context |-> visible, passes |-> 0]}
    /\ \E flagged \in SUBSET {v \in pair : skipRole[v] = "trass"} :
        skipRole' = [v \in Vars |-> IF v \in flagged THEN "other" ELSE skipRole[v]]
    /\ UNCHANGED <<visible, live, inert, absorbed, hypers, covered, phase>>

\* The component of c in the graph of the composites: the least set that holds
\* c and, with a pair, every pair that shares a member with it.
Component(c) ==
    {d \in composites : \A S \in SUBSET composites :
        /\ c \in S
        /\ \A x \in S, y \in composites : x.members \cap y.members # {} => y \in S
        => d \in S}

Dense(pairs) ==
    LET size == Cardinality(MembersOf(pairs))
    IN /\ size >= MinSize
       /\ 2 * DensDen * Cardinality(pairs) >= DensNum * size * (size - 1)
       /\ 2 * Cardinality({c \in pairs : c.passes >= MinPasses}) >= Cardinality(pairs)

\* The handles a component can be promoted to: some witness of its pairs
\* answers the joint probe of all members.
Handles(pairs) ==
    [id : Ids \ {h.id : h \in hypers}, members : {MembersOf(pairs)},
     witness : {c.witness : c \in pairs}, context : {visible}]

\* _promote_dense_components: each dense component, unless no witness answers.
Promote ==
    /\ phase = "tests"
    /\ Cardinality(composites) >= MinSize
    /\ \E promoted \in SUBSET {Component(c) : c \in composites} :
        /\ promoted # {}
        /\ \A pairs \in promoted : Dense(pairs)
        /\ \E handle \in [promoted -> UNION {Handles(pairs) : pairs \in promoted}] :
            /\ \A pairs \in promoted : handle[pairs] \in Handles(pairs)
            /\ \A p, q \in promoted : handle[p].id = handle[q].id => p = q
            /\ hypers' = hypers \cup {handle[pairs] : pairs \in promoted}
        /\ composites' = composites \ UNION promoted
        /\ absorbed' = absorbed \cup UNION promoted
    /\ covered' = {} /\ phase' = "idle"
    /\ UNCHANGED agent

EndCycle ==
    /\ phase = "tests"
    /\ covered' = {} /\ phase' = "idle"
    /\ UNCHANGED <<agent, certs>>

\* on_variable_revealed: another variable, outside Vars.
Reveal ==
    /\ phase = "idle" /\ visible < MaxVisible
    /\ visible' = visible + 1
    /\ UNCHANGED <<live, inert, skipRole, certs, covered, phase>>

JointNext ==
    \/ CheckHypers \/ CheckComposites \/ StartTests \/ Promote \/ EndCycle \/ Reveal
    \/ \E v \in Vars : Process(v) \/ Touch(v)
    \/ \E pair \in Pairs : JointTest(pair)

JointSpec == JointInit /\ [][JointNext]_jointVars

-----------------------------------------------------------------------------
(* Properties                                                              *)

\* No pair is lost while absorbed: it lies inside a live hyper-composite, whose
\* failure brings it back, however hyper-composites come to overlap.
AbsorbedBacked == \A c \in absorbed : \E h \in hypers : c.members \subseteq h.members

\* A live variable that a first pass skips on joint evidence belongs to a
\* certificate earned with the variables visible now, whose witness is not
\* trass: the assumption that a dormant pair still holds, and pairs that come
\* back from a hyper-composite with an old context, never cover a live one.
CoveredOnEvidence ==
    [][phase = "pairs" => \A v \in covered' \cap live :
        \E c \in composites' \cup hypers' :
            v \in c.members /\ c.context = visible /\ skipRole[c.witness] # "trass"]_jointVars

-----------------------------------------------------------------------------
(* What the comments of the code say and the code does not do              *)

\* "Covered vars are excluded from pairwise _check_composites below"
\* (run_cycle): a pairwise failure takes no role from a variable that its
\* hyper-composite covers.
CoveredExcluded ==
    [][phase = "pairs" => \A v \in covered : skipRole'[v] = skipRole[v]]_jointVars
=============================================================================
