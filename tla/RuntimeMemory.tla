--------------------------- MODULE RuntimeMemory ----------------------------
(***************************************************************************)
(* nethra_runtime_memory.py in the agent that uses it: what a run loads    *)
(* from the mind, how it reorders the source-edge candidates of a target,  *)
(* and how the fit that follows confirms the hint or not.  Each seed of a  *)
(* batch is a run of its own with an index of its own.                     *)
(*                                                                         *)
(* A target stands for its context and the candidates its hint promotes.   *)
(* No writer of search routes exists, so a lookup is the projection's.     *)
(***************************************************************************)
EXTENDS Naturals, Sequences, FiniteSets

CONSTANTS Seeds, Targets,
          MaxCycle,  \* bounds the cycles of a run
          MaxEvents  \* _MAX_EXPERIENCE_EVENTS

VARIABLES mode,     \* the --nethra-memory mode of the batch
          hints,    \* hints[s]: the targets whose handle may rank candidates
          cycle,    \* cycle[s]
          memCycle, \* _current_cycle_for_memory
          audited,  \* audited[s]: the targets audited in this cycle
          pending,  \* _pending_candidate_hints: the cycle of the hint of a target
          events,   \* events[s]: the deque
          dropped   \* dropped[s]: how many events left it at the other end

runtime == <<mode, hints, cycle, memCycle, audited, pending, events, dropped>>

NoHint == MaxCycle + 1

Event == [kind : {"look", "reorder", "confirmed", "wasted"}, target : Targets,
          cycle : 0..MaxCycle]

ForEach(v) == [s \in Seeds |-> v]

\* A run that has not begun.
Unborn ==
    /\ hints = ForEach({}) /\ audited = ForEach({})
    /\ cycle = ForEach(0) /\ memCycle = ForEach(0)
    /\ pending = ForEach([t \in Targets |-> NoHint])
    /\ events = ForEach(<<>>) /\ dropped = ForEach(0)

\* PersistentNethraIndex.__init__ for every run of a new batch.
Reborn ==
    /\ hints' = ForEach({}) /\ audited' = ForEach({})
    /\ cycle' = ForEach(0) /\ memCycle' = ForEach(0)
    /\ pending' = ForEach([t \in Targets |-> NoHint])
    /\ events' = ForEach(<<>>) /\ dropped' = ForEach(0)

\* The index of s goes with its process.
Discard(s) ==
    /\ hints' = [hints EXCEPT ![s] = {}] /\ audited' = [audited EXCEPT ![s] = {}]
    /\ cycle' = [cycle EXCEPT ![s] = 0] /\ memCycle' = [memCycle EXCEPT ![s] = 0]
    /\ pending' = [pending EXCEPT ![s] = [t \in Targets |-> NoHint]]
    /\ events' = [events EXCEPT ![s] = <<>>] /\ dropped' = [dropped EXCEPT ![s] = 0]

\* load_path: of a node's rights the strongest decides whether it may rank.
Loaded(nodes) == {t \in Targets : nodes[t].hint}

\* The deque forgets its oldest events.
Kept(q) == IF Len(q) <= MaxEvents THEN q
           ELSE SubSeq(q, Len(q) - MaxEvents + 1, Len(q))

\* rank_candidates: only in assist mode, and only if the order changes.
Ranked(s, t, moved) ==
    IF mode = "assist" /\ t \in hints[s] /\ moved
    THEN [kind |-> "reorder", target |-> t, cycle |-> memCycle[s]]
    ELSE [kind |-> "look", target |-> t, cycle |-> memCycle[s]]

Hinted(s, t, moved) ==
    IF Ranked(s, t, moved).kind = "reorder" THEN memCycle[s] ELSE pending[s][t]

\* rank_probes records its look; whether it reordered is not in the event.
Probed(s, t, asked) ==
    IF asked THEN <<[kind |-> "look", target |-> t, cycle |-> cycle[s]]>> ELSE <<>>

\* Mutant: a hint of any earlier cycle is judged.
JudgedLate(s, t, hint, confirmed) ==
    IF hint = NoHint THEN <<>>
    ELSE <<[kind |-> IF confirmed THEN "confirmed" ELSE "wasted", target |-> t,
            cycle |-> cycle[s]]>>

\* record_fit_outcome: a hint given in another cycle is dropped unjudged.
Judged(s, t, hint, confirmed) ==
    IF hint # cycle[s] THEN <<>>
    ELSE <<[kind |-> IF confirmed THEN "confirmed" ELSE "wasted", target |-> t,
            cycle |-> cycle[s]]>>

\* One audit of t: its candidates are screened, its probes ranked, the fit
\* installed and the hint judged by it.
Audit(s, t) ==
    /\ t \notin audited[s]
    /\ audited' = [audited EXCEPT ![s] = @ \cup {t}]
    /\ \E moved, asked, confirmed \in BOOLEAN :
         LET hint == Hinted(s, t, moved)
             new  == <<Ranked(s, t, moved)>> \o Probed(s, t, asked)
                       \o Judged(s, t, hint, confirmed)
         IN  /\ events' = [events EXCEPT ![s] = IF mode = "off" THEN @ ELSE Kept(@ \o new)]
             /\ dropped' = [dropped EXCEPT
                  ![s] = IF mode = "off" THEN @
                         ELSE @ + Len(events[s]) + Len(new) - Len(Kept(events[s] \o new))]
    /\ pending' = [pending EXCEPT ![s][t] = NoHint]
    /\ UNCHANGED <<mode, hints, cycle, memCycle>>

\* run_cycle tells the memory which cycle it is ...
RunCycle(s) ==
    /\ cycle[s] < MaxCycle
    /\ cycle' = [cycle EXCEPT ![s] = @ + 1]
    /\ memCycle' = [memCycle EXCEPT ![s] = cycle'[s]]
    /\ audited' = [audited EXCEPT ![s] = {}]
    /\ UNCHANGED <<mode, hints, pending, events, dropped>>

\* ... and in a reveal cycle nothing does.  Only the new variable is audited.
Reveal(s) ==
    /\ cycle[s] < MaxCycle
    /\ cycle' = [cycle EXCEPT ![s] = @ + 1]
    /\ \E t \in Targets : audited' = [audited EXCEPT ![s] = Targets \ {t}]
    /\ UNCHANGED <<mode, hints, memCycle, pending, events, dropped>>

RunStep(s) == RunCycle(s) \/ Reveal(s) \/ \E t \in Targets : Audit(s, t)

-----------------------------------------------------------------------------
RuntimeType ==
    /\ mode \in {"off", "record", "assist"}
    /\ hints \in [Seeds -> SUBSET Targets]
    /\ cycle \in [Seeds -> 0..MaxCycle] /\ memCycle \in [Seeds -> 0..MaxCycle]
    /\ audited \in [Seeds -> SUBSET Targets]
    /\ pending \in [Seeds -> [Targets -> 0..NoHint]]
    /\ events \in [Seeds -> Seq(Event)]
    /\ \A s \in Seeds : Len(events[s]) <= MaxEvents
    /\ dropped \in [Seeds -> Nat]

\* An outcome is only recorded for a hint that reordered the candidates of the
\* same target in the same cycle: its reorder event stands before it, unless the
\* deque has dropped it.
OutcomeOfItsHint ==
    \A s \in Seeds : \A i \in DOMAIN events[s] :
      events[s][i].kind \in {"confirmed", "wasted"} =>
        \/ \E j \in 1..(i - 1) : events[s][j] = [events[s][i] EXCEPT !.kind = "reorder"]
        \/ dropped[s] > 0 /\ i <= 2
=============================================================================
