------------------------- MODULE EventEmissionProofs -------------------------
(***************************************************************************)
(* Theorems about EventEmission: an acknowledged event is stored, an event *)
(* is linked twice only if an answer was lost, and every stray node is     *)
(* explained, for any number of runs, events and retries, with all faults. *)
(***************************************************************************)
EXTENDS EventEmission, TLAPS

(* How far a handler is says what of its node and edge is in the graph.    *)
HandlerOK(a) ==
  /\ handler[a] # "unsent" => a[2] \in DOMAIN events[a[1]]
  /\ handler[a] \in {"unsent", "sent", "creating"} => a \notin nodes
  /\ handler[a] = "sent" => KindOf(a) # "unserializable"
  /\ handler[a] = "creating" => KindOf(a) \notin {"unserializable", "badNodeType"}
  /\ handler[a] = "linking" => a \in nodes /\ KindOf(a) \in {"checkpoint", "metric"}
  /\ handler[a] = "answered" =>
       /\ a \in nodes
       /\ a \in edges \/ a[1] \notin experiments
       /\ KindOf(a) \in {"checkpoint", "metric"}
  /\ handler[a] = "failed" /\ a \in edges => "database" \in Faults
  /\ handler[a] \in {"failed", "gone"} /\ a \in nodes \ edges =>
       \/ KindOf(a) = "badEdgeType"
       \/ a[1] \notin experiments
       \/ "database" \in Faults /\ handler[a] = "failed"
       \/ "crash" \in Faults /\ handler[a] = "gone"

(* What the client has seen of an attempt is what became of it.            *)
SeenOK(a) ==
  /\ seen[a] = "ok" => handler[a] = "answered"
  /\ seen[a] = "error" => handler[a] = "failed"
  /\ seen[a] = "refused" => handler[a] = "unsent"

Calling(r) == client[r].phase \in {"ready", "waiting"}

(* Attempt a of run r is still to come.                                    *)
ToCome(r, a) ==
  \/ a[2] > Len(events[r])
  \/ Calling(r) /\ a[2] = Len(events[r]) /\ a[3] > client[r].attempt

(* What is to come has not begun; the attempt under way has not ended, and *)
(* those of the same event before it ended in a way that is retried.       *)
AttemptOK(a) ==
  LET r == a[1] IN
  /\ ToCome(r, a) => handler[a] = "unsent" /\ seen[a] = "nothing"
  /\ Calling(r) /\ a[2] = Len(events[r]) =>
       /\ KindOf(a) # "unserializable"
       /\ a[3] = client[r].attempt =>
            seen[a] = "nothing" /\ (client[r].phase = "ready" => handler[a] = "unsent")
       /\ a[3] < client[r].attempt => seen[a] \in {"refused", "reset", "error"}

(* An attempt is made only after the ones before it ended that way.        *)
OrderOK(a, b) ==
  a[1] = b[1] /\ a[2] = b[2] /\ a[3] < b[3] /\ handler[b] # "unsent" =>
    seen[a] \in {"refused", "reset", "error"}

EmissionInv ==
  /\ TypeOK
  /\ \A r \in Run : Calling(r) => Len(events[r]) > 0
  /\ \A a \in Attempt : HandlerOK(a) /\ SeenOK(a) /\ AttemptOK(a)
  /\ \A a, b \in Attempt : OrderOK(a, b)

-----------------------------------------------------------------------------
LEMMA InvImplies ==
  EmissionInv => AcknowledgedIsStored /\ RepeatedOnlyWhenUnanswered /\ StrayExplained
<1> SUFFICES ASSUME EmissionInv
             PROVE  AcknowledgedIsStored /\ RepeatedOnlyWhenUnanswered /\ StrayExplained
  OBVIOUS
<1>1. AcknowledgedIsStored
  BY DEF EmissionInv, AcknowledgedIsStored, HandlerOK, SeenOK, RunOf
<1>2. RepeatedOnlyWhenUnanswered
  <2> SUFFICES ASSUME NEW a \in edges, NEW b \in edges, EventOf(a) = EventOf(b),
                      AttemptOf(a) < AttemptOf(b)
               PROVE  seen[a] = "reset" \/ (seen[a] = "error" /\ "database" \in Faults)
    BY DEF RepeatedOnlyWhenUnanswered
  <2>1. a \in Attempt /\ b \in Attempt /\ a \in nodes /\ b \in nodes
    BY DEF EmissionInv, TypeOK
  <2>2. handler[a] # "unsent" /\ handler[b] # "unsent"
    BY <2>1 DEF EmissionInv, HandlerOK
  <2>3. seen[a] \in {"refused", "reset", "error"}
    BY <2>1, <2>2 DEF EmissionInv, OrderOK, EventOf, AttemptOf
  <2>4. SeenOK(a) /\ HandlerOK(a)
    BY <2>1 DEF EmissionInv
  <2>5. seen[a] # "refused"
    BY <2>2, <2>4 DEF SeenOK
  <2>6. seen[a] = "error" => "database" \in Faults
    BY <2>4 DEF SeenOK, HandlerOK
  <2> QED
    BY <2>3, <2>5, <2>6
<1>3. StrayExplained
  <2> SUFFICES ASSUME NEW a \in nodes \ edges, handler[a] \in {"answered", "failed", "gone"}
               PROVE  \/ KindOf(a) = "badEdgeType"
                      \/ RunOf(a) \notin experiments
                      \/ "database" \in Faults /\ handler[a] = "failed"
                      \/ "crash" \in Faults /\ handler[a] = "gone"
    BY DEF StrayExplained
  <2> QED
    BY DEF EmissionInv, TypeOK, HandlerOK, RunOf
<1> QED
  BY <1>1, <1>2, <1>3

LEMMA InitInv == Init => EmissionInv
<1> SUFFICES ASSUME Init PROVE EmissionInv
  OBVIOUS
<1>1. TypeOK
  BY EmissionAssumption DEF Init, TypeOK, AtWork
<1>2. \A a \in Attempt : HandlerOK(a) /\ SeenOK(a)
  BY DEF Init, HandlerOK, SeenOK
<1>3. \A a \in Attempt : AttemptOK(a)
  BY DEF Init, AttemptOK, Calling, Attempt
<1>4. \A a, b \in Attempt : OrderOK(a, b)
  BY DEF Init, OrderOK
<1>5. \A r \in Run : ~Calling(r)
  BY DEF Init, Calling
<1> QED
  BY <1>1, <1>2, <1>3, <1>4, <1>5 DEF EmissionInv

(* A step of the server on attempt a: the client notices nothing, the      *)
(* graph changes for a only.                                               *)
LEMMA ServerStep ==
  ASSUME EmissionInv, NEW a \in Attempt, handler[a] \in AtWork,
         NEW phase \in {"creating", "linking", "answered", "failed", "gone"},
         handler' = [handler EXCEPT ![a] = phase],
         nodes' \in {nodes, nodes \cup {a}}, edges' \in {edges, edges \cup {a}},
         edges' \subseteq nodes',
         UNCHANGED <<experiments, clientVars, doomed>>,
         HandlerOK(a)'
  PROVE  EmissionInv'
<1>1. TypeOK'
  BY DEF EmissionInv, TypeOK, AtWork, clientVars
<1>2. /\ handler'[a] = phase /\ handler'[a] # "unsent" /\ handler[a] # "unsent"
      /\ \A b \in Attempt : b # a =>
           /\ handler'[b] = handler[b]
           /\ (b \in nodes' <=> b \in nodes) /\ (b \in edges' <=> b \in edges)
  BY DEF EmissionInv, TypeOK, AtWork
<1>3. ASSUME NEW b \in Attempt PROVE HandlerOK(b)'
  <2>1. CASE b # a
    BY <1>2, <2>1 DEF EmissionInv, HandlerOK, KindOf, clientVars
  <2> QED
    BY <2>1
<1>4. ASSUME NEW b \in Attempt PROVE SeenOK(b)'
  BY <1>2 DEF EmissionInv, SeenOK, AtWork, clientVars
<1>5. ASSUME NEW b \in Attempt PROVE AttemptOK(b)'
  BY <1>2 DEF EmissionInv, AttemptOK, ToCome, Calling, KindOf, clientVars
<1>6. ASSUME NEW b \in Attempt, NEW c \in Attempt PROVE OrderOK(b, c)'
  BY <1>2 DEF EmissionInv, OrderOK, clientVars
<1>7. \A r \in Run : Calling(r)' => Len(events'[r]) > 0
  BY DEF EmissionInv, Calling, clientVars
<1> QED
  BY <1>1, <1>3, <1>4, <1>5, <1>6, <1>7 DEF EmissionInv

LEMMA HandlingStep ==
  ASSUME EmissionInv, NEW a \in Attempt, Handling(a) \/ Vanish(a) PROVE EmissionInv'
<1>1. CASE Accept(a)
  <2> DEFINE phase == IF KindOf(a) = "badNodeType" THEN "failed" ELSE "creating"
  <2>1. /\ handler[a] = "sent" /\ a \notin nodes /\ a \notin edges
        /\ a[2] \in DOMAIN events[a[1]] /\ KindOf(a) # "unserializable"
    BY <1>1 DEF Accept, EmissionInv, TypeOK, HandlerOK
  <2>2. /\ phase \in {"creating", "failed"}
        /\ phase = "creating" => KindOf(a) \notin {"unserializable", "badNodeType"}
        /\ KindOf(a)' = KindOf(a)
    BY <1>1, <2>1 DEF Accept, KindOf, clientVars
  <2>3. handler' = [handler EXCEPT ![a] = phase] /\ handler'[a] = phase
    BY <1>1 DEF Accept, At, EmissionInv, TypeOK
  <2> HIDE DEF phase
  <2>4. HandlerOK(a)'
    BY <1>1, <2>1, <2>2, <2>3 DEF Accept, HandlerOK, graphVars, clientVars
  <2> QED
    BY <1>1, <2>1, <2>2, <2>3, <2>4, ServerStep
       DEF Accept, EmissionInv, TypeOK, AtWork, graphVars
<1>2. CASE CreateNode(a)
  <2> DEFINE phase == IF KindOf(a) = "badEdgeType" THEN "failed" ELSE "linking"
  <2>1. /\ handler[a] = "creating" /\ a \notin edges
        /\ a[2] \in DOMAIN events[a[1]] /\ a[1] \in Run
        /\ KindOf(a) \notin {"unserializable", "badNodeType"}
    BY <1>2 DEF CreateNode, EmissionInv, TypeOK, HandlerOK, Attempt
  <2>2. KindOf(a) \in EventKind
    BY <2>1 DEF EmissionInv, TypeOK, KindOf
  <2>3. /\ phase \in {"linking", "failed"}
        /\ phase = "linking" => KindOf(a) \in {"checkpoint", "metric"}
        /\ phase = "failed" => KindOf(a) = "badEdgeType"
        /\ KindOf(a)' = KindOf(a)
    BY <1>2, <2>1, <2>2 DEF CreateNode, KindOf, EventKind, clientVars
  <2>4. handler' = [handler EXCEPT ![a] = phase] /\ handler'[a] = phase
    BY <1>2 DEF CreateNode, At, EmissionInv, TypeOK
  <2> HIDE DEF phase
  <2>5. HandlerOK(a)'
    BY <1>2, <2>1, <2>3, <2>4 DEF CreateNode, HandlerOK, clientVars
  <2> QED
    BY <1>2, <2>1, <2>3, <2>4, <2>5, ServerStep
       DEF CreateNode, EmissionInv, TypeOK, AtWork
<1>3. CASE CreateEdge(a)
  BY <1>3, ServerStep DEF CreateEdge, At, Linked, RunOf, EmissionInv, TypeOK, HandlerOK,
                          KindOf, AtWork, clientVars
<1>4. CASE DatabaseFails(a)
  BY <1>4, ServerStep DEF DatabaseFails, At, Linked, RunOf, EmissionInv, TypeOK, HandlerOK,
                          KindOf, AtWork, clientVars
<1>5. CASE Vanish(a)
  BY <1>5, ServerStep DEF Vanish, At, EmissionInv, TypeOK, HandlerOK, KindOf, AtWork,
                          graphVars, clientVars
<1> QED
  BY <1>1, <1>2, <1>3, <1>4, <1>5 DEF Handling

(* The crash of the server takes only what nobody has seen the end of.     *)
LEMMA CrashStep ==
  ASSUME EmissionInv, Crash PROVE EmissionInv'
<1> DEFINE lost == {a \in Attempt : handler[a] \in AtWork
                      \/ (Open(a) /\ handler[a] \in {"answered", "failed"})}
<1>1. /\ "crash" \in Faults
      /\ handler' = [a \in Attempt |-> IF a \in lost THEN "gone" ELSE handler[a]]
      /\ UNCHANGED <<graphVars, clientVars, doomed>>
  BY DEF Crash
<1>2. ASSUME NEW a \in lost
      PROVE  /\ a \in Attempt /\ handler[a] # "unsent"
             /\ seen[a] \notin {"ok", "error", "refused"}
  <2>1. a \in Attempt /\ SeenOK(a) /\ AttemptOK(a) /\ a[1] \in Run
    BY DEF EmissionInv, Attempt
  <2>2. CASE handler[a] \in AtWork
    BY <2>1, <2>2 DEF SeenOK, AtWork
  <2>3. CASE Open(a) /\ handler[a] \in {"answered", "failed"}
    <3>1. /\ Calling(a[1]) /\ a[2] = Len(events[a[1]])
          /\ a[3] = client[a[1]].attempt
      BY <2>1, <2>3 DEF Open, Current, RunOf, Calling, Attempt
    <3> QED
      BY <2>1, <2>3, <3>1 DEF AttemptOK
  <2> QED
    BY <2>1, <2>2, <2>3
<1>3. \A a \in Attempt :
        /\ a \in lost => handler'[a] = "gone"
        /\ a \notin lost => handler'[a] = handler[a]
  BY <1>1
<1> HIDE DEF lost
<1>4. TypeOK'
  BY <1>1 DEF EmissionInv, TypeOK, graphVars, clientVars
<1>5. ASSUME NEW a \in Attempt PROVE HandlerOK(a)'
  BY <1>1, <1>2, <1>3 DEF EmissionInv, HandlerOK, KindOf, graphVars, clientVars
<1>6. ASSUME NEW a \in Attempt PROVE SeenOK(a)'
  BY <1>1, <1>2, <1>3 DEF EmissionInv, SeenOK, clientVars
<1>7. ASSUME NEW a \in Attempt PROVE AttemptOK(a)'
  BY <1>1, <1>2, <1>3 DEF EmissionInv, AttemptOK, ToCome, Calling, KindOf, clientVars
<1>8. ASSUME NEW a \in Attempt, NEW b \in Attempt PROVE OrderOK(a, b)'
  BY <1>1, <1>2, <1>3 DEF EmissionInv, OrderOK, clientVars
<1>9. \A r \in Run : Calling(r)' => Len(events'[r]) > 0
  BY <1>1 DEF EmissionInv, Calling, clientVars
<1> QED
  BY <1>4, <1>5, <1>6, <1>7, <1>8, <1>9 DEF EmissionInv

(* The UI takes experiments and edges away, and leaves the nodes.          *)
LEMMA DeletionStep ==
  ASSUME EmissionInv, NEW r \in Run, CheckDeletable(r) \/ DeleteExperiment(r)
  PROVE  EmissionInv'
<1>1. /\ UNCHANGED <<nodes, handler, clientVars>>
      /\ experiments' \subseteq experiments
      /\ edges' \subseteq edges
      /\ \A a \in edges \ edges' : a[1] \notin experiments'
  BY DEF CheckDeletable, DeleteExperiment, graphVars, RunOf
<1>2. TypeOK'
  BY DEF EmissionInv, TypeOK, CheckDeletable, DeleteExperiment, graphVars, clientVars
<1>3. ASSUME NEW a \in Attempt PROVE HandlerOK(a)'
  BY <1>1 DEF EmissionInv, HandlerOK, KindOf, clientVars
<1>4. ASSUME NEW a \in Attempt PROVE SeenOK(a)' /\ AttemptOK(a)'
  BY <1>1 DEF EmissionInv, SeenOK, AttemptOK, ToCome, Calling, KindOf, clientVars
<1>5. ASSUME NEW a \in Attempt, NEW b \in Attempt PROVE OrderOK(a, b)'
  BY <1>1 DEF EmissionInv, OrderOK, clientVars
<1>6. \A t \in Run : Calling(t)' => Len(events'[t]) > 0
  BY <1>1 DEF EmissionInv, Calling, clientVars
<1> QED
  BY <1>2, <1>3, <1>4, <1>5, <1>6 DEF EmissionInv

-----------------------------------------------------------------------------
(* The attempt a run is at, as a triple.                                   *)
LEMMA CurrentIs ==
  ASSUME EmissionInv, NEW r \in Run, Calling(r)
  PROVE  /\ Current(r) \in Attempt
         /\ \A a \in Attempt : a = Current(r) <=>
              a[1] = r /\ a[2] = Len(events[r]) /\ a[3] = client[r].attempt
<1>1. /\ Len(events[r]) \in 1 .. MaxEvents
      /\ client[r].attempt \in 0 .. Retries
  BY EmissionAssumption DEF EmissionInv, TypeOK
<1> QED
  BY <1>1 DEF Current, Attempt

ClientState == [phase : {"training", "ready", "waiting", "over"}, attempt : 0 .. Retries]

(* What becomes of client when one run's record is replaced.               *)
LEMMA ClientReplaced ==
  ASSUME EmissionInv, NEW r \in Run, NEW rec \in ClientState,
         client' = [client EXCEPT ![r] = rec]
  PROVE  /\ client' \in [Run -> ClientState]
         /\ client'[r] = rec
         /\ \A t \in Run : t # r => client'[t] = client[t]
<1>1. client \in [Run -> ClientState]
  BY DEF EmissionInv, TypeOK, ClientState
<1> QED
  BY <1>1

LEMMA PhaseReplaced ==
  ASSUME EmissionInv, NEW r \in Run, NEW phase \in {"training", "ready", "waiting", "over"},
         client' = [client EXCEPT ![r].phase = phase]
  PROVE  /\ client' \in [Run -> ClientState]
         /\ client'[r].phase = phase /\ client'[r].attempt = client[r].attempt
         /\ \A t \in Run : t # r => client'[t] = client[t]
<1> DEFINE rec == [client[r] EXCEPT !.phase = phase]
<1>1. client \in [Run -> ClientState] /\ client[r] \in ClientState
  BY DEF EmissionInv, TypeOK, ClientState
<1>2. rec \in ClientState /\ rec.phase = phase /\ rec.attempt = client[r].attempt
  BY <1>1 DEF ClientState
<1>3. client' = [client EXCEPT ![r] = rec]
  BY <1>1
<1> HIDE DEF rec
<1> QED
  BY <1>2, <1>3, ClientReplaced

(* A new event: the attempts for it have not begun.                        *)
LEMMA EmitStep ==
  ASSUME EmissionInv, NEW r \in Run, NEW kind \in EventKind, Emit(r, kind)
  PROVE  EmissionInv'
<1> DEFINE n == Len(events[r])
<1>1. /\ client[r].phase = "training" /\ n < MaxEvents
      /\ events' = [events EXCEPT ![r] = Append(@, kind)]
      /\ UNCHANGED <<graphVars, handler, seen, doomed>>
  BY DEF Emit
<1>2. /\ events' \in [Run -> Seq(EventKind)]
      /\ Len(events'[r]) = n + 1 /\ n \in Nat
      /\ events'[r][n + 1] = kind
      /\ \A t \in Run : \A i \in DOMAIN events[t] :
           i \in DOMAIN events'[t] /\ events'[t][i] = events[t][i]
      /\ \A t \in Run : t # r => events'[t] = events[t]
  BY <1>1 DEF EmissionInv, TypeOK
<1>3. /\ client' \in [Run -> ClientState]
      /\ \A t \in Run : t # r => client'[t] = client[t]
      /\ Calling(r)' => /\ kind # "unserializable"
                        /\ client'[r].phase = "ready" /\ client'[r].attempt = 0
  <2>1. CASE kind = "unserializable"
    BY <1>1, <2>1 DEF Emit, EmissionInv, TypeOK, ClientState, Calling
  <2>2. CASE kind # "unserializable"
    <3> DEFINE rec == [phase |-> "ready", attempt |-> 0]
    <3>1. client' = [client EXCEPT ![r] = rec]
      BY <2>2 DEF Emit
    <3>2. rec \in ClientState /\ rec.phase = "ready" /\ rec.attempt = 0
      BY EmissionAssumption DEF ClientState
    <3> HIDE DEF rec
    <3> QED
      BY <2>2, <3>1, <3>2, ClientReplaced
  <2> QED
    BY <2>1, <2>2
<1>4. TypeOK'
  <2>1. \A t \in Run : Len(events'[t]) <= MaxEvents
    BY EmissionAssumption, <1>1, <1>2 DEF EmissionInv, TypeOK
  <2> QED
    BY <1>1, <1>2, <1>3, <2>1 DEF EmissionInv, TypeOK, ClientState, graphVars
<1>5. ASSUME NEW a \in Attempt PROVE HandlerOK(a)'
  BY <1>1, <1>2 DEF EmissionInv, HandlerOK, KindOf, Attempt, graphVars
<1>6. ASSUME NEW a \in Attempt PROVE SeenOK(a)'
  BY <1>1 DEF EmissionInv, SeenOK
<1>7. ASSUME NEW a \in Attempt PROVE AttemptOK(a)'
  <2>1. a[1] \in Run /\ a[2] \in Nat /\ a[3] \in Nat
    BY EmissionAssumption DEF Attempt
  <2>2. CASE a[1] # r
    BY <1>1, <1>2, <1>3, <2>1, <2>2 DEF EmissionInv, AttemptOK, ToCome, Calling, KindOf
  <2>3. CASE a[1] = r
    <3>1. a[2] > n => handler[a] = "unsent" /\ seen[a] = "nothing"
      BY <2>3 DEF EmissionInv, AttemptOK, ToCome
    <3> QED
      BY <1>1, <1>2, <1>3, <2>1, <2>3, <3>1 DEF AttemptOK, ToCome, KindOf
  <2> QED
    BY <2>2, <2>3
<1>8. ASSUME NEW a \in Attempt, NEW b \in Attempt PROVE OrderOK(a, b)'
  BY <1>1 DEF EmissionInv, OrderOK
<1>9. \A t \in Run : Calling(t)' => Len(events'[t]) > 0
  BY <1>2, <1>3 DEF EmissionInv, Calling
<1> QED
  BY <1>4, <1>5, <1>6, <1>7, <1>8, <1>9 DEF EmissionInv

(* An attempt is sent.                                                     *)
LEMMA SendStep ==
  ASSUME EmissionInv, NEW r \in Run, Send(r) PROVE EmissionInv'
<1> DEFINE c == Current(r)
<1>1. /\ Calling(r) /\ client[r].phase = "ready"
      /\ handler' = [handler EXCEPT ![c] = "sent"]
      /\ UNCHANGED <<graphVars, events, seen, doomed>>
  BY DEF Send, Calling
<1>2. /\ c \in Attempt
      /\ c[1] = r /\ c[2] = Len(events[r]) /\ c[3] = client[r].attempt
      /\ \A a \in Attempt : a = c <=>
              a[1] = r /\ a[2] = Len(events[r]) /\ a[3] = client[r].attempt
  BY <1>1, CurrentIs
<1> HIDE DEF c
<1>3. /\ handler[c] = "unsent" /\ seen[c] = "nothing" /\ c \notin nodes
      /\ KindOf(c) # "unserializable"
  BY <1>1, <1>2 DEF EmissionInv, AttemptOK, HandlerOK
<1>4. /\ handler'[c] = "sent"
      /\ \A a \in Attempt : a # c => handler'[a] = handler[a]
  BY <1>1, <1>2 DEF EmissionInv, TypeOK
<1>5. /\ client' \in [Run -> ClientState]
      /\ \A t \in Run : t # r => client'[t] = client[t]
      /\ client'[r].phase = "waiting" /\ client'[r].attempt = client[r].attempt
  BY PhaseReplaced DEF Send
<1>6. TypeOK'
  BY <1>1, <1>2, <1>5 DEF EmissionInv, TypeOK, AtWork, ClientState, graphVars
<1>7. ASSUME NEW a \in Attempt PROVE HandlerOK(a)'
  <2>1. CASE a # c
    BY <1>1, <1>4, <2>1 DEF EmissionInv, HandlerOK, KindOf, graphVars
  <2>2. CASE a = c
    <3>1. c[2] \in DOMAIN events[r]
      BY <1>1, <1>2 DEF EmissionInv, TypeOK
    <3> QED
      BY <1>1, <1>2, <1>3, <1>4, <2>2, <3>1 DEF HandlerOK, KindOf, graphVars
  <2> QED
    BY <2>1, <2>2
<1>8. ASSUME NEW a \in Attempt PROVE SeenOK(a)'
  BY <1>1, <1>3, <1>4 DEF EmissionInv, SeenOK
<1>9. ASSUME NEW a \in Attempt PROVE AttemptOK(a)'
  <2>1. a[1] \in Run /\ a[2] \in Nat /\ a[3] \in Nat /\ client[r].attempt \in Nat
    BY EmissionAssumption DEF Attempt, EmissionInv, TypeOK
  <2>2. CASE a[1] # r
    BY <1>1, <1>2, <1>4, <1>5, <2>1, <2>2 DEF EmissionInv, AttemptOK, ToCome, Calling, KindOf
  <2>3. CASE a[1] = r
    BY <1>1, <1>2, <1>3, <1>4, <1>5, <2>1, <2>3
       DEF EmissionInv, AttemptOK, ToCome, Calling, KindOf
  <2> QED
    BY <2>2, <2>3
<1>10. ASSUME NEW a \in Attempt, NEW b \in Attempt PROVE OrderOK(a, b)'
  <2>1. CASE b # c
    BY <1>1, <1>4, <2>1 DEF EmissionInv, OrderOK
  <2>2. CASE b = c
    BY <1>1, <1>2, <2>2 DEF EmissionInv, OrderOK, AttemptOK
  <2> QED
    BY <2>1, <2>2
<1>11. \A t \in Run : Calling(t)' => Len(events'[t]) > 0
  BY <1>1, <1>5 DEF EmissionInv, Calling
<1> QED
  BY <1>6, <1>7, <1>8, <1>9, <1>10, <1>11 DEF EmissionInv

(* An attempt ends for the client: no later attempt of the event has begun, *)
(* and another one follows only an end that is retried.                     *)
LEMMA EndStep ==
  ASSUME EmissionInv, NEW r \in Run, Calling(r),
         NEW how \in {"ok", "error", "refused", "reset", "timeout"}, Ended(r, how),
         UNCHANGED <<graphVars, handler, events, doomed>>,
         how = "ok" => handler[Current(r)] = "answered",
         how = "error" => handler[Current(r)] = "failed",
         how = "refused" => handler[Current(r)] = "unsent",
         client' \in [Run -> ClientState],
         \A t \in Run : t # r => client'[t] = client[t],
         \/ client'[r].phase = "training"
         \/ /\ how \in {"refused", "reset", "error"}
            /\ client'[r].phase = "ready"
            /\ client'[r].attempt = client[r].attempt + 1
  PROVE  EmissionInv'
<1> DEFINE c == Current(r)
<1>1. /\ c \in Attempt
      /\ c[1] = r /\ c[2] = Len(events[r]) /\ c[3] = client[r].attempt
      /\ \A a \in Attempt : a = c <=>
              a[1] = r /\ a[2] = Len(events[r]) /\ a[3] = client[r].attempt
  BY CurrentIs
<1>2. /\ seen' = [seen EXCEPT ![c] = how]
      /\ how = "ok" => handler[c] = "answered"
      /\ how = "error" => handler[c] = "failed"
      /\ how = "refused" => handler[c] = "unsent"
  BY DEF Ended
<1> HIDE DEF c
<1>3. /\ seen'[c] = how
      /\ \A a \in Attempt : a # c => seen'[a] = seen[a]
  BY <1>1, <1>2 DEF EmissionInv, TypeOK
<1>4. TypeOK'
  BY <1>2 DEF EmissionInv, TypeOK, ClientState, graphVars
<1>5. ASSUME NEW a \in Attempt PROVE HandlerOK(a)'
  BY DEF EmissionInv, HandlerOK, KindOf, graphVars
<1>6. ASSUME NEW a \in Attempt PROVE SeenOK(a)'
  BY <1>2, <1>3 DEF EmissionInv, SeenOK
<1>7. ASSUME NEW a \in Attempt PROVE AttemptOK(a)'
  <2>1. a[1] \in Run /\ a[2] \in Nat /\ a[3] \in Nat /\ client[r].attempt \in Nat
    BY EmissionAssumption DEF Attempt, EmissionInv, TypeOK
  <2>2. CASE a[1] # r
    BY <1>1, <1>3, <2>1, <2>2 DEF EmissionInv, AttemptOK, ToCome, Calling, KindOf
  <2>3. CASE a[1] = r
    <3>1. AttemptOK(a) /\ UNCHANGED <<handler, events>>
      BY DEF EmissionInv
    <3>2. CASE client'[r].phase = "training"
      BY <1>1, <1>3, <2>1, <2>3, <3>1, <3>2 DEF AttemptOK, ToCome, Calling, EmissionInv, TypeOK
    <3>3. CASE /\ how \in {"refused", "reset", "error"}
               /\ client'[r].phase = "ready"
               /\ client'[r].attempt = client[r].attempt + 1
      BY <1>1, <1>3, <2>1, <2>3, <3>1, <3>3 DEF AttemptOK, ToCome, Calling, KindOf
    <3> QED
      BY <3>2, <3>3
  <2> QED
    BY <2>2, <2>3
<1>8. ASSUME NEW a \in Attempt, NEW b \in Attempt PROVE OrderOK(a, b)'
  <2>1. CASE a # c
    BY <1>3, <2>1 DEF EmissionInv, OrderOK
  <2>2. CASE a = c
    <3>1. AttemptOK(b) /\ b[3] \in Nat
      BY EmissionAssumption DEF EmissionInv, Attempt
    <3> QED
      BY <1>1, <2>2, <3>1 DEF OrderOK, AttemptOK, ToCome
  <2> QED
    BY <2>1, <2>2
<1>9. \A t \in Run : Calling(t)' => Len(events'[t]) > 0
  BY DEF EmissionInv, Calling
<1> QED
  BY <1>4, <1>5, <1>6, <1>7, <1>8, <1>9 DEF EmissionInv

(* What _retry and a return make of the client.                            *)
LEMMA RetriedClient ==
  ASSUME EmissionInv, NEW r \in Run, Retried(r)
  PROVE  /\ client' \in [Run -> ClientState]
         /\ \A t \in Run : t # r => client'[t] = client[t]
         /\ \/ client'[r].phase = "training"
            \/ /\ client'[r].phase = "ready"
               /\ client'[r].attempt = client[r].attempt + 1
<1>1. client[r].attempt \in 0 .. Retries
  BY DEF EmissionInv, TypeOK
<1>2. CASE client[r].attempt < Retries
  <2> DEFINE rec == [phase |-> "ready", attempt |-> client[r].attempt + 1]
  <2>1. client' = [client EXCEPT ![r] = rec]
    BY <1>2 DEF Retried
  <2>2. /\ rec \in ClientState
        /\ rec.phase = "ready" /\ rec.attempt = client[r].attempt + 1
    BY EmissionAssumption, <1>1, <1>2 DEF ClientState
  <2> HIDE DEF rec
  <2> QED
    BY <2>1, <2>2, ClientReplaced
<1>3. CASE ~(client[r].attempt < Retries)
  <2> DEFINE rec == [phase |-> "training", attempt |-> client[r].attempt]
  <2>1. client' = [client EXCEPT ![r] = rec]
    BY <1>3 DEF Retried
  <2>2. rec \in ClientState /\ rec.phase = "training"
    BY <1>1 DEF ClientState
  <2> HIDE DEF rec
  <2> QED
    BY <2>1, <2>2, ClientReplaced
<1> QED
  BY <1>2, <1>3

LEMMA EndingStep ==
  ASSUME EmissionInv, NEW r \in Run, Refused(r) \/ Ending(r) PROVE EmissionInv'
<1>1. CASE Refused(r)
  <2>1. Calling(r) /\ client[r].phase = "ready"
    BY <1>1 DEF Refused, Calling
  <2>2. Current(r) \in Attempt /\ handler[Current(r)] = "unsent"
    <3>1. /\ Current(r) \in Attempt /\ Current(r)[1] = r
          /\ Current(r)[2] = Len(events[r]) /\ Current(r)[3] = client[r].attempt
      BY <2>1, CurrentIs
    <3> QED
      BY <2>1, <3>1 DEF EmissionInv, AttemptOK
  <2> QED
    BY <1>1, <2>1, <2>2, RetriedClient, EndStep DEF Refused
<1>2. CASE ReadAnswer(r)
  BY <1>2, PhaseReplaced, EndStep DEF ReadAnswer, Returned, Calling
<1>3. CASE ReadError(r)
  BY <1>3, RetriedClient, EndStep DEF ReadError, Calling
<1>4. CASE Reset(r)
  BY <1>4, RetriedClient, EndStep DEF Reset, Calling
<1>5. CASE TimeOut(r)
  BY <1>5, PhaseReplaced, EndStep DEF TimeOut, Returned, Calling
<1> QED
  BY <1>1, <1>2, <1>3, <1>4, <1>5 DEF Ending

(* The process ends; the server goes on with what it was sent.             *)
LEMMA StopStep ==
  ASSUME EmissionInv, NEW r \in Run, Stop(r) PROVE EmissionInv'
<1>1. /\ client' \in [Run -> ClientState]
      /\ client'[r].phase = "over"
      /\ \A t \in Run : t # r => client'[t] = client[t]
  BY PhaseReplaced DEF Stop
<1>2. UNCHANGED <<graphVars, handler, events, seen, doomed>>
  BY DEF Stop
<1>3. TypeOK'
  BY <1>1, <1>2 DEF EmissionInv, TypeOK, ClientState, graphVars
<1>4. ASSUME NEW a \in Attempt PROVE HandlerOK(a)' /\ SeenOK(a)'
  BY <1>2 DEF EmissionInv, HandlerOK, SeenOK, KindOf, graphVars
<1>5. ASSUME NEW a \in Attempt PROVE AttemptOK(a)'
  <2>1. a[1] \in Run
    BY DEF Attempt
  <2>2. CASE a[1] = r
    BY <1>1, <1>2, <2>2 DEF EmissionInv, AttemptOK, ToCome, Calling
  <2>3. CASE a[1] # r
    BY <1>1, <1>2, <2>1, <2>3 DEF EmissionInv, AttemptOK, ToCome, Calling, KindOf
  <2> QED
    BY <2>2, <2>3
<1>6. ASSUME NEW a \in Attempt, NEW b \in Attempt PROVE OrderOK(a, b)'
  BY <1>2 DEF EmissionInv, OrderOK
<1>7. \A t \in Run : Calling(t)' => Len(events'[t]) > 0
  BY <1>1, <1>2 DEF EmissionInv, Calling
<1> QED
  BY <1>3, <1>4, <1>5, <1>6, <1>7 DEF EmissionInv

-----------------------------------------------------------------------------
LEMMA NextInv == EmissionInv /\ [Next]_vars => EmissionInv'
<1> SUFFICES ASSUME EmissionInv, [Next]_vars PROVE EmissionInv'
  OBVIOUS
<1>1. ASSUME NEW r \in Run, NEW kind \in EventKind, Emit(r, kind) PROVE EmissionInv'
  BY <1>1, EmitStep
<1>2. ASSUME NEW r \in Run, Attempting(r) \/ Ending(r) PROVE EmissionInv'
  BY <1>2, SendStep, EndingStep DEF Attempting
<1>3. ASSUME NEW r \in Run, Stop(r) PROVE EmissionInv'
  BY <1>3, StopStep
<1>4. ASSUME NEW r \in Run, CheckDeletable(r) \/ DeleteExperiment(r) PROVE EmissionInv'
  BY <1>4, DeletionStep
<1>5. ASSUME NEW a \in Attempt, Handling(a) \/ Vanish(a) PROVE EmissionInv'
  BY <1>5, HandlingStep
<1>6. CASE Crash
  BY <1>6, CrashStep
<1>7. CASE UNCHANGED vars
  <2>1. /\ UNCHANGED <<experiments, nodes, edges, handler, client, events, seen, doomed>>
    BY <1>7 DEF vars
  <2>2. TypeOK'
    BY <2>1 DEF EmissionInv, TypeOK
  <2>3. \A a \in Attempt : HandlerOK(a)' /\ SeenOK(a)' /\ AttemptOK(a)'
    BY <2>1 DEF EmissionInv, HandlerOK, SeenOK, AttemptOK, ToCome, Calling, KindOf
  <2>4. \A a, b \in Attempt : OrderOK(a, b)'
    BY <2>1 DEF EmissionInv, OrderOK
  <2>5. \A t \in Run : Calling(t)' => Len(events'[t]) > 0
    BY <2>1 DEF EmissionInv, Calling
  <2> QED
    BY <2>2, <2>3, <2>4, <2>5 DEF EmissionInv
<1> QED
  BY <1>1, <1>2, <1>3, <1>4, <1>5, <1>6, <1>7 DEF Next

(* The strengthened invariant: how far a handler is, how an attempt ended  *)
(* for the client and which attempt is under way agree with the graph.     *)
THEOREM EmissionInvariance == Spec => []EmissionInv
<1> QED
  BY InitInv, NextInv, PTL DEF Spec

(* Every event the client logs as emitted is in the graph, with its edge   *)
(* unless the experiment was deleted: emit_node, create_event_node.        *)
THEOREM AcknowledgedStored == Spec => []AcknowledgedIsStored
<1>1. EmissionInv => AcknowledgedIsStored
  BY InvImplies
<1> QED
  BY <1>1, EmissionInvariance, PTL

(* _retry links an event twice only if an answer was lost or the database  *)
(* failed after it had committed; a timeout never does.                    *)
THEOREM RepeatedUnanswered == Spec => []RepeatedOnlyWhenUnanswered
<1>1. EmissionInv => RepeatedOnlyWhenUnanswered
  BY InvImplies
<1> QED
  BY <1>1, EmissionInvariance, PTL

(* An event node without its edge is explained by a rejected edge type, a  *)
(* deleted experiment, or a fault between the server's two transactions.   *)
THEOREM StraysExplained == Spec => []StrayExplained
<1>1. EmissionInv => StrayExplained
  BY InvImplies
<1> QED
  BY <1>1, EmissionInvariance, PTL
=============================================================================
