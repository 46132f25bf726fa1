-------------------------- MODULE Scheduler_proofs --------------------------
(* Proofs about Scheduler.tla, for every set of targets, settings and       *)
(* chains.                                                                  *)
EXTENDS Scheduler, TLAPS

-----------------------------------------------------------------------------
(* The two maps.                                                            *)
LEMMA PutProperties ==
    ASSUME NEW f, NEW k, NEW v
    PROVE  /\ DOMAIN Put(f, k, v) = DOMAIN f \union {k}
           /\ Put(f, k, v)[k] = v
           /\ \A x \in DOMAIN f \ {k} : Put(f, k, v)[x] = f[x]
BY DEF Put

LEMMA WithoutProperties ==
    ASSUME NEW f, NEW S
    PROVE  /\ DOMAIN Without(f, S) = DOMAIN f \ S
           /\ \A x \in DOMAIN f \ S : Without(f, S)[x] = f[x]
BY DEF Without

ChainType == [phase : Phases, spec : Specs]

LEMMA SpecType == ASSUME NEW spec \in Specs PROVE spec.id \in Targets
BY SpecAssumption DEF SpecAssumption

LEMMA ArmedType ==
    ASSUME NEW spec \in Specs
    PROVE  Armed(spec) \in ChainType
BY DEF Armed, ChainType, Phases

-----------------------------------------------------------------------------
(* What each step does to the chains.                                       *)
ChainsOK == Live \subseteq Chains /\ \A c \in Live : chain[c] \in ChainType

LEMMA ChainsTyped == TypeOK => ChainsOK /\ chain \in [Live -> ChainType]
BY DEF TypeOK, ChainsOK, ChainType

\* Chains end.
LEMMA EndShape ==
    ASSUME TypeOK, NEW S, chain' = Without(chain, S)
    PROVE  /\ chain' \in [Live' -> ChainType] /\ Live' \subseteq Chains
           /\ Live' = Live \ S
           /\ \A c \in Live' : chain'[c] = chain[c]
           /\ \A t \in Targets : ChainsOf(t)' = ChainsOf(t) \ S
<1>1. /\ Live' = Live \ S
      /\ \A c \in Live' : chain'[c] = chain[c]
  <2>1. /\ DOMAIN Without(chain, S) = DOMAIN chain \ S
        /\ \A c \in DOMAIN chain \ S : Without(chain, S)[c] = chain[c]
    BY WithoutProperties
  <2> QED
    BY <2>1 DEF Live
<1>2. chain' \in [Live' -> ChainType]
  <2>1. chain' = [x \in Live' |-> chain[x]]
    BY <1>1 DEF Without, Live
  <2> QED
    BY <1>1, <2>1, ChainsTyped DEF ChainsOK
<1> QED
  BY <1>1, <1>2, ChainsTyped DEF ChainsOK, ChainsOf

\* A chain moves on.
LEMMA MoveShape ==
    ASSUME TypeOK, NEW c \in Live, NEW v \in ChainType, v.spec = chain[c].spec,
           chain' = [chain EXCEPT ![c] = v]
    PROVE  /\ chain' \in [Live' -> ChainType] /\ Live' = Live
           /\ chain'[c] = v
           /\ \A d \in Live \ {c} : chain'[d] = chain[d]
           /\ \A d \in Live : chain'[d].spec = chain[d].spec
           /\ \A t \in Targets : ChainsOf(t)' = ChainsOf(t)
<1>1. chain \in [Live -> ChainType]
  BY ChainsTyped
<1>2. Live' = Live /\ chain' \in [Live' -> ChainType]
  BY <1>1 DEF Live
<1>3. /\ chain'[c] = v
      /\ \A d \in Live \ {c} : chain'[d] = chain[d]
  BY <1>1
<1>4. \A d \in Live : chain'[d].spec = chain[d].spec
  BY <1>3
<1> QED
  BY <1>2, <1>3, <1>4 DEF ChainsOf

\* A chain begins, others end.
LEMMA BeginShape ==
    ASSUME TypeOK, NEW S, NEW c \in Chains, NEW v \in ChainType,
           chain' = Put(Without(chain, S), c, v)
    PROVE  /\ chain' \in [Live' -> ChainType]
           /\ Live' = (Live \ S) \union {c} /\ Live' \subseteq Chains
           /\ chain'[c] = v
           /\ \A d \in Live' \ {c} : chain'[d] = chain[d]
<1> DEFINE w == Without(chain, S)
<1>1. DOMAIN w = Live \ S /\ \A d \in Live \ S : w[d] = chain[d]
  BY WithoutProperties DEF Live
<1>2. chain' = Put(w, c, v)
  OBVIOUS
<1> HIDE DEF w
<1>3. /\ Live' = (Live \ S) \union {c}
      /\ chain'[c] = v
      /\ \A d \in (Live \ S) \ {c} : chain'[d] = w[d]
  <2>1. /\ DOMAIN Put(w, c, v) = DOMAIN w \union {c}
        /\ Put(w, c, v)[c] = v
        /\ \A d \in DOMAIN w \ {c} : Put(w, c, v)[d] = w[d]
    BY DEF Put
  <2> QED
    BY <1>1, <1>2, <2>1 DEF Live
<1>4. \A d \in Live' \ {c} : chain'[d] = chain[d]
  BY <1>1, <1>3
<1>5. \A d \in Live' : chain'[d] \in ChainType
  BY <1>3, <1>4, ChainsTyped DEF ChainsOK
<1>6. chain' = [d \in Live' |-> chain'[d]]
  BY <1>1, <1>2, <1>3 DEF Put
<1>7. chain' \in [Live' -> ChainType]
  BY <1>5, <1>6
<1>8. Live' \subseteq Chains
  BY <1>3, ChainsTyped DEF ChainsOK
<1> QED
  BY <1>3, <1>4, <1>7, <1>8
-----------------------------------------------------------------------------
(* Type correctness.                                                        *)
MapsOK == /\ DOMAIN targets \subseteq Targets
          /\ \A t \in DOMAIN targets : targets[t] \in Specs /\ targets[t].id = t
          /\ DOMAIN timers = DOMAIN targets
          /\ \A t \in DOMAIN timers : timers[t] \in Chains

LEMMA TypeParts ==
    TypeOK <=> /\ MapsOK /\ Live \subseteq Chains /\ chain \in [Live -> ChainType]
               /\ stopped \in BOOLEAN /\ overlapped \in [Targets -> BOOLEAN]
BY DEF TypeOK, MapsOK, ChainType

LEMMA TypePartsNext ==
    (/\ MapsOK /\ Live \subseteq Chains /\ chain \in [Live -> ChainType]
     /\ stopped \in BOOLEAN /\ overlapped \in [Targets -> BOOLEAN])' => TypeOK'
BY TypeParts, PTL

LEMMA OverlapsType ==
    ASSUME TypeOK, NEW S
    PROVE  /\ Overlaps(S) \in [Targets -> BOOLEAN]
           /\ \A t \in Targets : Overlaps(S)[t] <=> overlapped[t] /\ ChainsOf(t) \ S # {}
<1>1. \A t \in Targets : overlapped[t] \in BOOLEAN
  BY DEF TypeOK
<1> QED
  BY <1>1, Zenon DEF Overlaps

\* What Add does, in the terms of the lemmas above.
LEMMA AddShape ==
    ASSUME TypeOK, NEW spec \in Specs, Add(spec)
    PROVE  \E c \in Chains \ (Live \ Cancelled(spec.id)) :
              /\ chain' = Put(Without(chain, Cancelled(spec.id)), c, Armed(spec))
              /\ timers' = Put(timers, spec.id, c)
              /\ chain' \in [Live' -> ChainType]
              /\ Live' = (Live \ Cancelled(spec.id)) \union {c}
              /\ Live' \subseteq Chains
              /\ chain'[c] = Armed(spec)
              /\ \A d \in Live' \ {c} : chain'[d] = chain[d]
<1>1. PICK c \in Chains \ (Live \ Cancelled(spec.id)) :
         /\ chain' = Put(Without(chain, Cancelled(spec.id)), c, Armed(spec))
         /\ timers' = Put(timers, spec.id, c)
  BY DEF Add
<1>2. Armed(spec) \in ChainType
  BY ArmedType
<1> QED
  BY <1>1, <1>2, BeginShape

\* What a step of chain c does that goes on.
LEMMA RunningType ==
    ASSUME TypeOK, NEW c \in Live,
           NEW phase \in {"probing", "finishing"}
    PROVE  /\ Running(phase, chain[c].spec) \in ChainType
           /\ Running(phase, chain[c].spec).spec = chain[c].spec
           /\ Running(phase, chain[c].spec).phase # "armed"
<1>1. chain[c].spec \in Specs
  BY ChainsTyped DEF ChainsOK, ChainType
<1> QED
  BY <1>1 DEF Running, ChainType, Phases

LEMMA FireShape ==
    ASSUME TypeOK, NEW c \in Live, Fire(c)
    PROVE  \E v \in ChainType : /\ v.spec = chain[c].spec /\ v.phase # "armed"
                                /\ chain' = [chain EXCEPT ![c] = v]
<1>1. \/ chain' = [chain EXCEPT ![c] = Running("probing", chain[c].spec)]
      \/ chain' = [chain EXCEPT ![c] = Running("finishing", chain[c].spec)]
  BY DEF Fire
<1> QED
  BY <1>1, RunningType

LEMMA DoneShape ==
    ASSUME TypeOK, NEW c \in Live, ProbeDone(c)
    PROVE  \E v \in ChainType : /\ v.spec = chain[c].spec /\ v.phase # "armed"
                                /\ chain' = [chain EXCEPT ![c] = v]
<1>1. chain' = [chain EXCEPT ![c] = Running("finishing", chain[c].spec)]
  BY DEF ProbeDone
<1> QED
  BY <1>1, RunningType

LEMMA RearmShape ==
    ASSUME TypeOK, NEW c \in Live
    PROVE  /\ Armed(chain[c].spec) \in ChainType
           /\ Armed(chain[c].spec).spec = chain[c].spec
           /\ chain[c].spec \in Specs /\ chain[c].spec.id \in Targets
<1>1. chain[c] \in ChainType
  BY ChainsTyped DEF ChainsOK
<1>2. chain[c].spec \in Specs
  BY <1>1 DEF ChainType
<1>3. chain[c].spec.id \in Targets
  BY <1>2, SpecType
<1> QED
  BY <1>2, <1>3, ArmedType DEF Armed

LEMMA TypeInit == Init => TypeOK
BY DEF Init, TypeOK, Live

LEMMA TypeStep == TypeOK /\ [Next]_vars => TypeOK'
<1> SUFFICES ASSUME TypeOK, [Next]_vars PROVE TypeOK'
  OBVIOUS
<1>0. MapsOK
  BY TypeParts
<1>1. ASSUME NEW spec \in Specs, Add(spec) PROVE TypeOK'
  <2>1. PICK c \in Chains :
           /\ timers' = Put(timers, spec.id, c)
           /\ chain' \in [Live' -> ChainType]
           /\ Live' \subseteq Chains
    BY <1>1, AddShape
  <2>2. spec.id \in Targets
    BY SpecType
  <2>3. MapsOK'
    <3>1. targets' = Put(targets, spec.id, spec)
      BY <1>1 DEF Add
    <3> QED
      BY <1>0, <2>1, <2>2, <3>1 DEF MapsOK, Put
  <2>4. overlapped' \in [Targets -> BOOLEAN]
    <3>1. overlapped \in [Targets -> BOOLEAN]
      BY TypeParts
    <3>2. overlapped' = [overlapped EXCEPT ![spec.id] = @ \/ InFlight(spec.id)]
      BY <1>1 DEF Add
    <3> QED
      BY <3>1, <3>2
  <2>5. stopped' \in BOOLEAN
    BY <1>1, TypeParts DEF Add
  <2> QED
    BY <2>1, <2>3, <2>4, <2>5, TypePartsNext
<1>2. ASSUME NEW t \in Targets, Remove(t) PROVE TypeOK'
  <2>1. chain' = Without(chain, Cancelled(t)) /\ overlapped' = Overlaps(Cancelled(t))
    BY <1>2 DEF Remove
  <2>2. MapsOK'
    BY <1>0, <1>2 DEF MapsOK, Remove, Without
  <2>3. stopped' \in BOOLEAN
    BY <1>2, TypeParts DEF Remove
  <2> QED
    BY <2>1, <2>2, <2>3, EndShape, OverlapsType, TypePartsNext
<1>3. CASE Stop
  <2> DEFINE S == UNION {Cancelled(t) : t \in Targets}
  <2>1. chain' = Without(chain, S) /\ overlapped' = Overlaps(S) /\ stopped' = TRUE
    BY <1>3 DEF Stop
  <2>2. MapsOK'
    BY <1>0, <1>3 DEF MapsOK, Stop
  <2> QED
    BY <2>1, <2>2, EndShape, OverlapsType, TypePartsNext
<1>4. ASSUME NEW c \in Live, NEW v \in ChainType, v.spec = chain[c].spec,
             chain' = [chain EXCEPT ![c] = v],
             UNCHANGED <<targets, timers, stopped, overlapped>>
      PROVE  TypeOK'
  <2>1. chain' \in [Live' -> ChainType] /\ Live' \subseteq Chains
    BY <1>4, MoveShape, ChainsTyped DEF ChainsOK
  <2>2. MapsOK'
    BY <1>0, <1>4 DEF MapsOK
  <2> QED
    BY <1>4, <2>1, <2>2, TypeParts, TypePartsNext
<1>5. ASSUME NEW c \in Live, Fire(c) PROVE TypeOK'
  BY <1>4, <1>5, FireShape DEF Fire
<1>6. ASSUME NEW c \in Live, ProbeDone(c)
      PROVE  TypeOK'
  BY <1>4, <1>6, DoneShape DEF ProbeDone
<1>7. ASSUME NEW c \in Live, Reschedule(c) PROVE TypeOK'
  <2>1. CASE Registered(chain[c].spec.id)
    <3> DEFINE v == Armed(chain[c].spec)
               t == chain[c].spec.id
    <3>1. /\ chain' = [chain EXCEPT ![c] = v]
          /\ timers' = Put(timers, t, c)
          /\ UNCHANGED <<targets, stopped, overlapped>>
      BY <1>7, <2>1 DEF Reschedule
    <3>2. chain' \in [Live' -> ChainType] /\ Live' \subseteq Chains
      BY <3>1, RearmShape, MoveShape, ChainsTyped DEF ChainsOK
    <3>3. c \in Chains
      BY ChainsTyped DEF ChainsOK
    <3>4. MapsOK'
      BY <1>0, <2>1, <3>1, <3>3 DEF MapsOK, Put, Registered
    <3> QED
      BY <3>1, <3>2, <3>4, TypeParts, TypePartsNext
  <2>2. CASE ~Registered(chain[c].spec.id)
    <3>1. /\ chain' = Without(chain, {c}) /\ overlapped' = Overlaps({c})
          /\ UNCHANGED <<targets, timers, stopped>>
      BY <1>7, <2>2 DEF Reschedule
    <3>2. MapsOK'
      BY <1>0, <3>1 DEF MapsOK
    <3> QED
      BY <3>1, <3>2, EndShape, OverlapsType, TypeParts, TypePartsNext
  <2> QED
    BY <2>1, <2>2
<1>8. CASE UNCHANGED vars
  BY <1>8 DEF vars, TypeOK, Live
<1> QED
  BY <1>1, <1>2, <1>3, <1>5, <1>6, <1>7, <1>8 DEF Next

(* Types; s.targets and s.timers hold the same keys.                        *)
THEOREM TypeCorrect == Spec => []TypeOK
BY TypeInit, TypeStep, PTL DEF Spec
-----------------------------------------------------------------------------
(* The inductive invariant.  That a target has one chain is not enough: what *)
(* makes the next Add, Remove or Stop find that chain is that the map still  *)
(* points at it.                                                            *)

\* The timer under a target is of that target, if it is alive at all.
OwnTimer == \A t \in DOMAIN timers :
    timers[t] \in Live => chain[timers[t]].spec.id = t

Single(t) ==
    /\ \A c, d \in ChainsOf(t) : c = d
    /\ \A c \in ChainsOf(t) :
          IF Registered(t) THEN chain[c].spec = targets[t] /\ timers[t] = c
          ELSE chain[c].phase # "armed"

IInv == /\ OwnTimer
        /\ NoTargetIsLost
        /\ \A t \in Targets : overlapped[t] = FALSE => Single(t)

LEMMA IInvInit == Init => IInv
BY DEF Init, IInv, OwnTimer, NoTargetIsLost, Single, ChainsOf, Live

\* A step that only ends chains, and leaves the maps alone, keeps what is said of
\* one target.
LEMMA EndKeepsSingle ==
    ASSUME TypeOK, IInv, NEW S, chain' = Without(chain, S),
           overlapped' = Overlaps(S), NEW t \in Targets,
           overlapped'[t] = FALSE,
           Registered(t) => targets'[t] = targets[t] /\ timers'[t] = timers[t],
           Registered(t)' <=> Registered(t)
    PROVE  Single(t)'
<1>1. /\ ChainsOf(t)' = ChainsOf(t) \ S
      /\ \A c \in ChainsOf(t)' : chain'[c] = chain[c]
  BY EndShape DEF ChainsOf
<1>2. CASE ChainsOf(t) \ S = {}
  BY <1>1, <1>2 DEF Single
<1>3. CASE overlapped[t] = FALSE
  <2>1. Single(t)
    BY <1>3 DEF IInv
  <2> QED
    BY <1>1, <2>1 DEF Single
<1>4. overlapped[t] = FALSE \/ ChainsOf(t) \ S = {}
  <2>1. ~ (overlapped[t] /\ ChainsOf(t) \ S # {})
    BY OverlapsType, Zenon
  <2>2. overlapped[t] \in BOOLEAN
    BY DEF TypeOK
  <2> QED
    BY <2>1, <2>2
<1> QED
  BY <1>2, <1>3, <1>4

\* A chain moves on and keeps its place.
LEMMA MoveKeeps ==
    ASSUME TypeOK, IInv, NEW c \in Live, NEW v \in ChainType,
           v.spec = chain[c].spec,
           v.phase = "armed" => Registered(v.spec.id),
           chain' = [chain EXCEPT ![c] = v],
           UNCHANGED <<targets, stopped, overlapped>>,
           \/ UNCHANGED timers
           \/ Registered(v.spec.id) /\ timers' = Put(timers, v.spec.id, c)
    PROVE  IInv'
<1>1. /\ Live' = Live /\ chain'[c] = v
      /\ \A d \in Live \ {c} : chain'[d] = chain[d]
      /\ \A d \in Live : chain'[d].spec = chain[d].spec
      /\ \A t \in Targets : ChainsOf(t)' = ChainsOf(t)
  BY MoveShape
<1> DEFINE u == v.spec.id
<1>2. c \in ChainsOf(u) /\ u \in Targets
  BY RearmShape DEF ChainsOf
<1>3. /\ DOMAIN timers' = DOMAIN targets /\ DOMAIN timers = DOMAIN targets
      /\ DOMAIN targets \subseteq Targets
      /\ \A t \in DOMAIN targets : timers'[t] = timers[t] \/ (t = u /\ timers'[t] = c)
  <2>1. DOMAIN timers = DOMAIN targets /\ DOMAIN targets \subseteq Targets
    BY DEF TypeOK
  <2> QED
    BY <2>1 DEF Put, Registered
<1>4. OwnTimer'
  BY <1>1, <1>2, <1>3 DEF IInv, OwnTimer, ChainsOf
<1>5. NoTargetIsLost'
  BY <1>1, <1>2, <1>3 DEF IInv, NoTargetIsLost
<1>6. ASSUME NEW t \in Targets, overlapped'[t] = FALSE PROVE Single(t)'
  <2>1. Single(t)
    BY <1>6 DEF IInv
  <2>2. ChainsOf(t)' = ChainsOf(t) /\ (Registered(t)' <=> Registered(t))
    BY <1>1 DEF Registered
  <2>3. ASSUME NEW d \in ChainsOf(t)
        PROVE  IF Registered(t)' THEN chain'[d].spec = targets'[t] /\ timers'[t] = d
               ELSE chain'[d].phase # "armed"
    <3>1. d \in Live /\ chain[d].spec.id = t
      BY DEF ChainsOf
    <3>2. CASE Registered(t)
      <4>1. chain[d].spec = targets[t] /\ timers[t] = d
        BY <2>1, <3>2 DEF Single
      <4>2. timers'[t] = d
        <5>1. CASE timers'[t] = timers[t]
          BY <4>1, <5>1
        <5>2. CASE t = u /\ timers'[t] = c
          BY <1>2, <2>1, <5>2 DEF Single
        <5> QED
          BY <1>3, <3>2, <5>1, <5>2 DEF Registered
      <4> QED
        BY <1>1, <2>2, <3>1, <3>2, <4>1, <4>2
    <3>3. CASE ~Registered(t)
      <4>1. chain[d].phase # "armed"
        BY <2>1, <3>3 DEF Single
      <4>2. CASE d = c
        BY <1>1, <2>2, <3>1, <3>3, <4>2
      <4>3. CASE d # c
        BY <1>1, <2>2, <3>1, <3>3, <4>1, <4>3
      <4> QED
        BY <4>2, <4>3
    <3> QED
      BY <3>2, <3>3
  <2> QED
    BY <2>1, <2>2, <2>3 DEF Single
<1> QED
  BY <1>4, <1>5, <1>6 DEF IInv

LEMMA AddKeeps ==
    ASSUME TypeOK, IInv, NEW spec \in Specs, Add(spec)
    PROVE  IInv'
<1> DEFINE t == spec.id
<1>1. PICK c \in Chains \ (Live \ Cancelled(t)) :
         /\ timers' = Put(timers, t, c)
         /\ Live' = (Live \ Cancelled(t)) \union {c}
         /\ chain'[c] = Armed(spec)
         /\ \A d \in Live' \ {c} : chain'[d] = chain[d]
  BY AddShape
<1>2. /\ ~stopped /\ stopped' = stopped
      /\ targets' = Put(targets, t, spec)
      /\ overlapped' = [overlapped EXCEPT ![t] = @ \/ InFlight(t)]
  BY DEF Add
<1>3. t \in Targets /\ chain'[c].spec = spec
  <2>1. t \in Targets
    BY SpecType
  <2>2. Armed(spec).spec = spec
    BY DEF Armed
  <2> QED
    BY <1>1, <2>1, <2>2
<1>4. /\ DOMAIN targets' = DOMAIN targets \union {t} /\ targets'[t] = spec
      /\ \A u \in DOMAIN targets \ {t} : targets'[u] = targets[u]
      /\ DOMAIN timers' = DOMAIN targets' /\ timers'[t] = c
      /\ \A u \in DOMAIN targets \ {t} : timers'[u] = timers[u]
      /\ DOMAIN timers = DOMAIN targets /\ DOMAIN targets \subseteq Targets
  <2>1. DOMAIN timers = DOMAIN targets /\ DOMAIN targets \subseteq Targets
    BY DEF TypeOK
  <2> QED
    BY <1>1, <1>2, <2>1 DEF Put
\* The timers that are stopped are t's, and so is the chain whose name is free.
<1>5. \A d \in Cancelled(t) : d \in ChainsOf(t) /\ chain[d].phase = "armed"
  BY DEF Cancelled, IInv, OwnTimer, ChainsOf
<1>6. ASSUME NEW u \in Targets \ {t} PROVE ChainsOf(u)' = ChainsOf(u)
  BY <1>1, <1>3, <1>5 DEF ChainsOf
<1>7. \A d \in Live \ Cancelled(t) : d # c /\ chain'[d] = chain[d] /\ d \in Live'
  BY <1>1
<1>8. OwnTimer'
  <2>1. ASSUME NEW u \in DOMAIN timers', timers'[u] \in Live'
        PROVE  chain'[timers'[u]].spec.id = u
    <3>1. CASE u = t
      BY <1>3, <1>4, <3>1
    <3>2. CASE u # t
      <4>1. u \in DOMAIN targets /\ timers'[u] = timers[u]
        BY <1>4, <2>1, <3>2
      <4>2. timers[u] \in ChainsOf(u)
        BY <1>2, <4>1 DEF IInv, NoTargetIsLost
      <4>3. timers[u] \notin Cancelled(t)
        BY <1>5, <3>2, <4>2 DEF ChainsOf
      <4> QED
        BY <1>7, <4>1, <4>2, <4>3 DEF ChainsOf
    <3> QED
      BY <3>1, <3>2
  <2> QED
    BY <2>1 DEF OwnTimer
<1>9. NoTargetIsLost'
  <2>1. ASSUME NEW u \in DOMAIN targets' PROVE timers'[u] \in ChainsOf(u)'
    <3>1. CASE u = t
      BY <1>1, <1>3, <1>4, <3>1 DEF ChainsOf
    <3>2. CASE u # t
      BY <1>2, <1>4, <1>6, <2>1, <3>2 DEF IInv, NoTargetIsLost
    <3> QED
      BY <3>1, <3>2
  <2> QED
    BY <2>1 DEF NoTargetIsLost
<1>10. ASSUME NEW u \in Targets, overlapped'[u] = FALSE PROVE Single(u)'
  <2>1. CASE u = t
    <3>1. overlapped[t] = FALSE /\ ~InFlight(t)
      <4>1. overlapped'[t] = (overlapped[t] \/ InFlight(t))
        BY <1>2, <1>3 DEF TypeOK
      <4>2. overlapped[t] \in BOOLEAN
        BY <1>3 DEF TypeOK
      <4> QED
        BY <1>10, <2>1, <4>1, <4>2
    <3>2. Single(t)
      BY <1>3, <3>1 DEF IInv
    <3>3. \A d \in ChainsOf(t) : d \in Cancelled(t)
      <4>1. \A d \in ChainsOf(t) : chain[d].phase = "armed"
        BY <3>1 DEF InFlight
      <4>2. \A d \in ChainsOf(t) : Registered(t) /\ timers[t] = d
        BY <3>2, <4>1 DEF Single
      <4> QED
        BY <1>4, <4>1, <4>2 DEF Cancelled, ChainsOf, Registered
    <3>4. ChainsOf(t)' = {c}
      BY <1>1, <1>3, <3>3 DEF ChainsOf
    <3> QED
      BY <1>3, <1>4, <2>1, <3>4 DEF Single, Registered
  <2>2. CASE u # t
    <3>1. overlapped[u] = FALSE
      BY <1>2, <1>10, <2>2 DEF TypeOK
    <3>2. Single(u)
      BY <3>1 DEF IInv
    <3>3. ChainsOf(u)' = ChainsOf(u) /\ \A d \in ChainsOf(u) : chain'[d] = chain[d]
      <4>1. ChainsOf(u)' = ChainsOf(u)
        BY <1>6, <2>2
      <4>2. \A d \in ChainsOf(u) : d \notin Cancelled(t)
        BY <1>5, <2>2 DEF ChainsOf
      <4> QED
        BY <1>7, <4>1, <4>2 DEF ChainsOf
    <3>4. Registered(u)' <=> Registered(u)
      BY <1>4, <2>2 DEF Registered
    <3>5. Registered(u) => targets'[u] = targets[u] /\ timers'[u] = timers[u]
      BY <1>4, <2>2 DEF Registered
    <3> QED
      BY <3>2, <3>3, <3>4, <3>5 DEF Single
  <2> QED
    BY <2>1, <2>2
<1> QED
  BY <1>8, <1>9, <1>10 DEF IInv

LEMMA RemoveKeeps ==
    ASSUME TypeOK, IInv, NEW t \in Targets, Remove(t)
    PROVE  IInv'
<1> DEFINE S == Cancelled(t)
<1>1. /\ chain' = Without(chain, S) /\ overlapped' = Overlaps(S)
      /\ targets' = Without(targets, {t}) /\ timers' = Without(timers, {t})
      /\ stopped' = stopped
  BY DEF Remove
<1>2. /\ Live' = Live \ S
      /\ \A c \in Live' : chain'[c] = chain[c]
      /\ \A u \in Targets : ChainsOf(u)' = ChainsOf(u) \ S
  BY <1>1, EndShape
<1>3. /\ DOMAIN targets' = DOMAIN targets \ {t} /\ DOMAIN timers' = DOMAIN targets'
      /\ \A u \in DOMAIN targets' : targets'[u] = targets[u] /\ timers'[u] = timers[u]
      /\ DOMAIN timers = DOMAIN targets /\ DOMAIN targets \subseteq Targets
  <2>1. DOMAIN timers = DOMAIN targets /\ DOMAIN targets \subseteq Targets
    BY DEF TypeOK
  <2> QED
    BY <1>1, <2>1 DEF Without
<1>4. \A d \in S : d \in ChainsOf(t)
  BY DEF Cancelled, IInv, OwnTimer, ChainsOf
<1> HIDE DEF S
<1>5. OwnTimer'
  BY <1>2, <1>3 DEF IInv, OwnTimer
<1>6. NoTargetIsLost'
  <2>1. ASSUME ~stopped, NEW u \in DOMAIN targets' PROVE timers'[u] \in ChainsOf(u)'
    <3>1. u # t /\ u \in Targets /\ timers'[u] = timers[u] /\ timers[u] \in ChainsOf(u)
      BY <1>3, <2>1 DEF IInv, NoTargetIsLost
    <3>2. timers[u] \notin S
      BY <1>4, <3>1 DEF ChainsOf
    <3> QED
      BY <1>2, <3>1, <3>2
  <2> QED
    BY <1>1, <2>1 DEF NoTargetIsLost
<1>7. ASSUME NEW u \in Targets, overlapped'[u] = FALSE PROVE Single(u)'
  <2>1. CASE u # t
    <3>1. Registered(u)' <=> Registered(u)
      BY <1>3, <2>1 DEF Registered
    <3>2. Registered(u) => targets'[u] = targets[u] /\ timers'[u] = timers[u]
      BY <1>3, <2>1 DEF Registered
    <3> QED
      BY <1>1, <1>7, <3>1, <3>2, EndKeepsSingle
  <2>2. CASE u = t
    <3>1. ~Registered(t)'
      BY <1>3 DEF Registered
    <3>2. CASE ChainsOf(t) \ S = {}
      BY <1>2, <2>2, <3>2 DEF Single
    <3>3. CASE overlapped[t] = FALSE
      <4>1. Single(t)
        BY <3>3 DEF IInv
      <4>2. ASSUME NEW d \in ChainsOf(t) \ S PROVE chain[d].phase # "armed"
        BY <1>3, <4>1, <4>2 DEF Single, S, Cancelled, ChainsOf, Registered
      <4> QED
        BY <1>2, <2>2, <3>1, <4>1, <4>2 DEF Single, ChainsOf
    <3>4. overlapped[t] = FALSE \/ ChainsOf(t) \ S = {}
      <4>1. Overlaps(S)[t] <=> overlapped[t] /\ ChainsOf(t) \ S # {}
        BY OverlapsType
      <4>2. overlapped[t] \in BOOLEAN
        BY DEF TypeOK
      <4> QED
        BY <1>1, <1>7, <2>2, <4>1, <4>2
    <3> QED
      BY <3>2, <3>3, <3>4
  <2> QED
    BY <2>1, <2>2
<1> QED
  BY <1>5, <1>6, <1>7 DEF IInv
LEMMA StopKeeps ==
    ASSUME TypeOK, IInv, Stop
    PROVE  IInv'
<1> DEFINE S == UNION {Cancelled(t) : t \in Targets}
<1>1. /\ chain' = Without(chain, S) /\ overlapped' = Overlaps(S) /\ stopped' = TRUE
      /\ UNCHANGED <<targets, timers>>
  BY DEF Stop
<1> HIDE DEF S
<1>2. Live' \subseteq Live /\ \A c \in Live' : chain'[c] = chain[c]
  BY <1>1, EndShape
<1>3. OwnTimer'
  BY <1>1, <1>2 DEF IInv, OwnTimer
<1>4. NoTargetIsLost'
  BY <1>1 DEF NoTargetIsLost
<1>5. ASSUME NEW u \in Targets, overlapped'[u] = FALSE PROVE Single(u)'
  BY <1>1, <1>5, EndKeepsSingle DEF Registered
<1> QED
  BY <1>3, <1>4, <1>5 DEF IInv

LEMMA RescheduleKeeps ==
    ASSUME TypeOK, IInv, NEW c \in Live, Reschedule(c)
    PROVE  IInv'
<1> DEFINE t == chain[c].spec.id
           v == Armed(chain[c].spec)
<1>1. /\ v \in ChainType /\ v.spec = chain[c].spec /\ t \in Targets
  BY RearmShape DEF Armed
<1>2. CASE Registered(t)
  <2>1. /\ chain' = [chain EXCEPT ![c] = v]
        /\ timers' = Put(timers, t, c)
        /\ UNCHANGED <<targets, stopped, overlapped>>
    BY <1>2 DEF Reschedule
  <2> HIDE DEF v
  <2> QED
    BY <1>1, <1>2, <2>1, MoveKeeps
<1>3. CASE ~Registered(t)
  <2>1. /\ chain' = Without(chain, {c}) /\ overlapped' = Overlaps({c})
        /\ UNCHANGED <<targets, timers, stopped>>
    BY <1>3 DEF Reschedule
  <2>2. /\ Live' = Live \ {c} /\ \A d \in Live' : chain'[d] = chain[d]
        /\ \A u \in Targets : ChainsOf(u)' = ChainsOf(u) \ {c}
    BY <2>1, EndShape
  <2>3. OwnTimer'
    BY <2>1, <2>2 DEF IInv, OwnTimer
  <2>4. NoTargetIsLost'
    <3>1. ASSUME ~stopped, NEW u \in DOMAIN targets
          PROVE  timers[u] \in ChainsOf(u) /\ u \in Targets /\ c \notin ChainsOf(u)
      BY <1>3, <3>1 DEF IInv, NoTargetIsLost, ChainsOf, Registered, TypeOK
    <3> QED
      BY <2>1, <2>2, <3>1 DEF NoTargetIsLost
  <2>5. ASSUME NEW u \in Targets, overlapped'[u] = FALSE PROVE Single(u)'
    BY <2>1, <2>5, EndKeepsSingle DEF Registered
  <2> QED
    BY <2>3, <2>4, <2>5 DEF IInv
<1> QED
  BY <1>2, <1>3

LEMMA IInvStep == TypeOK /\ IInv /\ [Next]_vars => IInv'
<1> SUFFICES ASSUME TypeOK, IInv, [Next]_vars PROVE IInv'
  OBVIOUS
<1>1. ASSUME NEW c \in Live, Fire(c) PROVE IInv'
  BY <1>1, FireShape, MoveKeeps DEF Fire
<1>2. ASSUME NEW c \in Live, ProbeDone(c)
      PROVE  IInv'
  BY <1>2, DoneShape, MoveKeeps DEF ProbeDone
<1>3. CASE UNCHANGED vars
  BY <1>3 DEF vars, IInv, OwnTimer, NoTargetIsLost, Single, ChainsOf, Live,
              Registered
<1> QED
  BY <1>1, <1>2, <1>3, AddKeeps, RemoveKeeps, StopKeeps, RescheduleKeeps DEF Next

LEMMA IInvAlways == Spec => []IInv
BY TypeCorrect, IInvInit, IInvStep, PTL DEF Spec

-----------------------------------------------------------------------------
(* Every registered target is being probed or has its timer set, until Stop. *)
THEOREM TargetsAreKept == Spec => []NoTargetIsLost
<1>1. IInv => NoTargetIsLost
  BY DEF IInv
<1> QED
  BY <1>1, IInvAlways, PTL

(* A target no Add overlapped is probed by one chain, with its settings.    *)
THEOREM OneChain == Spec => []OneChainUnlessOverlapped
<1>1. TypeOK /\ IInv => OneChainUnlessOverlapped
  <2> SUFFICES ASSUME IInv, TypeOK, NEW t \in Targets, ~overlapped[t]
               PROVE  Single(t)
    BY DEF OneChainUnlessOverlapped, Single
  <2>1. overlapped[t] = FALSE
    BY DEF TypeOK
  <2> QED
    BY <2>1 DEF IInv
<1> QED
  BY <1>1, TypeCorrect, IInvAlways, PTL

(* Stop reaches every timer of a target no Add overlapped.                  *)
THEOREM StopCancelsTimers == Spec => StopLeavesOnlyProbesInFlight
<1>1. ASSUME TypeOK, IInv, Stop, NEW c \in DOMAIN chain', chain'[c].phase = "armed"
      PROVE  overlapped[chain[c].spec.id]
  <2> DEFINE S == UNION {Cancelled(t) : t \in Targets}
             t == chain[c].spec.id
  <2>1. chain' = Without(chain, S)
    BY <1>1 DEF Stop
  <2>2. c \in Live \ S /\ chain[c].phase = "armed"
    BY <1>1, <2>1 DEF Live, Without
  <2>3. t \in Targets /\ c \in ChainsOf(t)
    BY <1>1, <2>2, RearmShape DEF ChainsOf
  <2>4. overlapped[t] # FALSE
    <3>1. SUFFICES ASSUME overlapped[t] = FALSE PROVE FALSE
      OBVIOUS
    <3>2. Registered(t) /\ timers[t] = c
      BY <1>1, <2>2, <2>3, <3>1 DEF IInv, Single
    <3>3. c \in Cancelled(t)
      BY <1>1, <2>2, <3>2 DEF Cancelled, Registered, TypeOK
    <3> QED
      BY <2>2, <2>3, <3>3
  <2> QED
    BY <1>1, <2>3, <2>4 DEF TypeOK
<1>2. TypeOK /\ IInv /\ [Next]_vars =>
        [Stop => \A c \in DOMAIN chain' :
                    chain'[c].phase = "armed" => overlapped[chain[c].spec.id]]_vars
  BY <1>1
<1> QED
  BY <1>2, TypeCorrect, IInvAlways, PTL DEF Spec, StopLeavesOnlyProbesInFlight
=============================================================================
