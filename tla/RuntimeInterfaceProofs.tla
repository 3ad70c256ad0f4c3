----------------------- MODULE RuntimeInterfaceProofs -----------------------
(***************************************************************************)
(* What the operators every adapter is specified with compute, for every   *)
(* model configuration, ledger and weight function.                        *)
(*                                                                         *)
(* The two folds of SlotSums: the recursions are well defined, a change of *)
(* one weight moves the exact sum by exactly that change, and the          *)
(* saturating fold is the exact sum capped at u16::MAX.  Induction on Nat  *)
(* is done on sets, from the least-element principle WFMin, and recursion  *)
(* from a step given as a function, so that no theorem takes an operator   *)
(* as a parameter.                                                         *)
(*                                                                         *)
(* RuntimeInterface: the map of models, the slots of a ledger to which a   *)
(* reservation is added or from which one is taken, what a well-formed     *)
(* request asks for, and the answers.                                      *)
(***************************************************************************)
EXTENDS RuntimeInterface, WellFoundedInduction, TLAPS

(***************************************************************************)
(* A set of naturals that holds 0 and the successor of each of its         *)
(* elements holds every natural: the induction every fold below rests on.  *)
(***************************************************************************)
LEMMA SetInduction ==
  ASSUME NEW S, 0 \in S, \A n \in Nat : n \in S => n + 1 \in S
  PROVE  \A n \in Nat : n \in S
<1> DEFINE T == Nat \ S
<1> SUFFICES ASSUME T # {} PROVE FALSE
  OBVIOUS
<1>1. PICK x \in T : \A y \in T : ~ (<<y, x>> \in OpToRel(<, Nat))
  <2>1. T \subseteq Nat
    OBVIOUS
  <2> HIDE DEF T
  <2> QED  BY <2>1, WFMin, NatLessThanWellFounded
<1>2. x \in Nat /\ x # 0
  BY <1>1
<1>3. x - 1 \in Nat
  BY <1>2
<1>4. <<x - 1, x>> \in OpToRel(<, Nat)
  BY <1>2, <1>3 DEF OpToRel
<1>5. x - 1 \in S
  BY <1>1, <1>3, <1>4
<1>6. (x - 1) + 1 \in S
  BY <1>3, <1>5
<1>7. (x - 1) + 1 = x
  BY <1>2
<1> QED
  BY <1>1, <1>6, <1>7

(***************************************************************************)
(* A partial sum: the exact sums of w up to n.                             *)
(***************************************************************************)
Sums(w, g, n) ==
  /\ g \in [0 .. n -> Nat]
  /\ g[0] = 0
  /\ \A i \in 1 .. n : g[i] = g[i - 1] + w[i]

(***************************************************************************)
(* A partial sum can be continued by one weight.                           *)
(***************************************************************************)
LEMMA SumsExtend ==
  ASSUME NEW w \in [Nat -> Nat], NEW n \in Nat, NEW g, Sums(w, g, n)
  PROVE  \E h : Sums(w, h, n + 1)
<1> DEFINE h == [i \in 0 .. n + 1 |-> IF i = n + 1 THEN g[n] + w[n + 1] ELSE g[i]]
<1>1. g[n] + w[n + 1] \in Nat
  <2>1. g[n] \in Nat
    BY DEF Sums
  <2>2. w[n + 1] \in Nat
    OBVIOUS
  <2> QED  BY <2>1, <2>2
<1>2. ASSUME NEW i \in 0 .. n + 1, i # n + 1 PROVE i \in 0 .. n /\ g[i] \in Nat
  <2>1. i \in 0 .. n
    BY <1>2
  <2> QED  BY <2>1 DEF Sums
<1>3. h \in [0 .. n + 1 -> Nat]
  BY <1>1, <1>2
<1>4. h[0] = 0
  BY DEF Sums
<1>5. ASSUME NEW i \in 1 .. n + 1 PROVE h[i] = h[i - 1] + w[i]
  <2>1. i - 1 \in 0 .. n + 1 /\ i \in 0 .. n + 1 /\ i - 1 # n + 1
    OBVIOUS
  <2>2. h[i - 1] = g[i - 1]
    BY <2>1
  <2>3. CASE i = n + 1
    <3>1. i - 1 = n /\ h[i] = g[n] + w[n + 1]
      BY <2>1, <2>3
    <3> HIDE DEF h
    <3> QED  BY <3>1, <2>2, <2>3
  <2>4. CASE i # n + 1
    <3>1. i \in 1 .. n /\ h[i] = g[i]
      BY <2>1, <2>4
    <3>2. g[i] = g[i - 1] + w[i]
      BY <3>1 DEF Sums
    <3> HIDE DEF h
    <3> QED  BY <3>1, <3>2, <2>2
  <2> QED  BY <2>3, <2>4
<1>6. Sums(w, h, n + 1)
  <2> HIDE DEF h
  <2> QED  BY <1>3, <1>4, <1>5 DEF Sums
<1> HIDE DEF h
<1> QED  BY <1>6

(***************************************************************************)
(* Two partial sums agree where both are defined.                          *)
(***************************************************************************)
LEMMA SumsAgree ==
  ASSUME NEW w \in [Nat -> Nat], NEW n \in Nat, NEW m \in Nat, NEW g, NEW h,
         Sums(w, g, n), Sums(w, h, m)
  PROVE  \A i \in Nat : i <= n /\ i <= m => g[i] = h[i]
<1> DEFINE Agree == {i \in Nat : i <= n /\ i <= m => g[i] = h[i]}
<1>1. 0 \in Agree
  BY DEF Sums
<1>2. ASSUME NEW i \in Nat, i \in Agree PROVE i + 1 \in Agree
  <2> SUFFICES ASSUME i + 1 <= n, i + 1 <= m PROVE g[i + 1] = h[i + 1]
    OBVIOUS
  <2>1. g[i] = h[i]
    BY <1>2
  <2>2. i + 1 \in 1 .. n /\ i + 1 \in 1 .. m /\ (i + 1) - 1 = i
    OBVIOUS
  <2>3. g[i + 1] = g[i] + w[i + 1] /\ h[i + 1] = h[i] + w[i + 1]
    BY <2>2 DEF Sums
  <2> QED  BY <2>1, <2>3
<1>3. \A i \in Nat : i \in Agree
  <2> HIDE DEF Agree
  <2> QED  BY <1>1, <1>2, SetInduction
<1> QED  BY <1>3

(***************************************************************************)
(* There is a partial sum up to every n.                                   *)
(***************************************************************************)
LEMMA SumsExist ==
  ASSUME NEW w \in [Nat -> Nat]
  PROVE  \A n \in Nat : \E g : Sums(w, g, n)
<1> DEFINE Defined == {n \in Nat : \E g : Sums(w, g, n)}
<1>1. 0 \in Defined
  <2>1. Sums(w, [i \in 0 .. 0 |-> 0], 0)
    BY DEF Sums
  <2> QED  BY <2>1
<1>2. ASSUME NEW n \in Nat, n \in Defined PROVE n + 1 \in Defined
  BY <1>2, SumsExtend
<1>3. \A n \in Nat : n \in Defined
  <2> HIDE DEF Defined
  <2> QED  BY <1>1, <1>2, SetInduction
<1> QED  BY <1>3

(***************************************************************************)
(* ExactSum is well defined: it is a function into the naturals that obeys *)
(* its recursion.                                                          *)
(***************************************************************************)
LEMMA ExactSumRecursion ==
  ASSUME NEW w \in [Nat -> Nat]
  PROVE  /\ ExactSum(w) \in [Nat -> Nat]
         /\ ExactSum(w)[0] = 0
         /\ \A n \in Nat : ExactSum(w)[n + 1] = ExactSum(w)[n] + w[n + 1]
<1> DEFINE G(n) == CHOOSE g : Sums(w, g, n)
           f == [n \in Nat |-> G(n)[n]]
           acc == ExactSum(w)
<1>1. ASSUME NEW n \in Nat PROVE Sums(w, G(n), n)
  BY SumsExist
<1> HIDE DEF G
<1>2. ASSUME NEW n \in Nat PROVE f[n] \in Nat
  BY <1>1 DEF Sums
<1>3. f[0] = 0
  BY <1>1 DEF Sums
<1>4. ASSUME NEW n \in Nat, n # 0 PROVE f[n] = f[n - 1] + w[n]
  <2>1. n - 1 \in Nat /\ n \in 1 .. n
    BY <1>4
  <2>2. Sums(w, G(n), n) /\ Sums(w, G(n - 1), n - 1)
    BY <1>1, <2>1
  <2>3. G(n)[n - 1] = G(n - 1)[n - 1]
    BY <2>1, <2>2, SumsAgree
  <2>4. G(n)[n] = G(n)[n - 1] + w[n]
    BY <2>1, <2>2 DEF Sums
  <2> QED  BY <2>1, <2>3, <2>4
<1>5. f = [k \in Nat |-> IF k = 0 THEN 0 ELSE f[k - 1] + w[k]]
  <2>1. f = [k \in Nat |-> f[k]]
    OBVIOUS
  <2>2. ASSUME NEW k \in Nat PROVE f[k] = IF k = 0 THEN 0 ELSE f[k - 1] + w[k]
    BY <1>3, <1>4
  <2> HIDE DEF f
  <2> QED  BY <2>1, <2>2
<1> HIDE DEF f
<1>6. acc = [k \in Nat |-> IF k = 0 THEN 0 ELSE acc[k - 1] + w[k]]
  BY <1>5 DEF ExactSum
<1> HIDE DEF acc
<1>7. acc[0] = 0
  BY <1>6
<1>8. ASSUME NEW n \in Nat PROVE acc[n + 1] = acc[n] + w[n + 1]
  BY <1>6
<1>9. \A n \in Nat : acc[n] \in Nat
  <2> DEFINE S == {n \in Nat : acc[n] \in Nat}
  <2>1. 0 \in S
    BY <1>7
  <2>2. ASSUME NEW n \in Nat, n \in S PROVE n + 1 \in S
    BY <2>2, <1>8
  <2>3. \A n \in Nat : n \in S
    <3> HIDE DEF S
    <3> QED  BY <2>1, <2>2, SetInduction
  <2> QED  BY <2>3
<1>10. acc \in [Nat -> Nat]
  <2>1. acc = [k \in Nat |-> acc[k]]
    BY <1>6
  <2> QED  BY <2>1, <1>9
<1> QED  BY <1>7, <1>8, <1>10 DEF acc

(***************************************************************************)
(* Changing one weight moves the exact sum by that change and no more:     *)
(* what inserting or removing one reservation does to a model's slots.     *)
(***************************************************************************)
LEMMA ExactSumUpdate ==
  ASSUME NEW w \in [Nat -> Nat], NEW v \in [Nat -> Nat], NEW i \in Nat \ {0},
         \A k \in Nat : k # i => v[k] = w[k]
  PROVE  \A n \in Nat : i <= n => ExactSum(v)[n] + w[i] = ExactSum(w)[n] + v[i]
<1> DEFINE W == ExactSum(w)
           V == ExactSum(v)
           S == {n \in Nat : V[n] + (IF i <= n THEN w[i] ELSE 0) = W[n] + (IF i <= n THEN v[i] ELSE 0)}
<1>1. /\ W \in [Nat -> Nat] /\ W[0] = 0
      /\ \A n \in Nat : W[n + 1] = W[n] + w[n + 1]
  BY ExactSumRecursion
<1>2. /\ V \in [Nat -> Nat] /\ V[0] = 0
      /\ \A n \in Nat : V[n + 1] = V[n] + v[n + 1]
  BY ExactSumRecursion
<1> HIDE DEF W, V
<1>3. 0 \in S
  BY <1>1, <1>2
<1>4. ASSUME NEW n \in Nat, n \in S PROVE n + 1 \in S
  <2>1. W[n + 1] = W[n] + w[n + 1] /\ V[n + 1] = V[n] + v[n + 1]
    BY <1>1, <1>2
  <2>2. W[n] \in Nat /\ V[n] \in Nat /\ w[n + 1] \in Nat /\ v[n + 1] \in Nat
         /\ w[i] \in Nat /\ v[i] \in Nat
    BY <1>1, <1>2
  <2>3. CASE i <= n
    <3>1. v[n + 1] = w[n + 1] /\ i <= n + 1
      BY <2>3
    <3>2. V[n] + w[i] = W[n] + v[i]
      BY <1>4, <2>3
    <3>3. V[n + 1] + w[i] = W[n + 1] + v[i]
      BY <2>1, <2>2, <3>1, <3>2
    <3> QED  BY <3>1, <3>3
  <2>4. CASE i = n + 1
    <3>1. ~ i <= n /\ i <= n + 1
      BY <2>4
    <3>2. V[n] + 0 = W[n] + 0
      BY <1>4, <3>1
    <3>3. V[n + 1] + w[i] = W[n + 1] + v[i]
      BY <2>1, <2>2, <2>4, <3>2
    <3> QED  BY <3>1, <3>3
  <2>5. CASE ~ i <= n /\ i # n + 1
    <3>1. v[n + 1] = w[n + 1] /\ ~ i <= n + 1
      BY <2>5
    <3>2. V[n] + 0 = W[n] + 0
      BY <1>4, <2>5
    <3>3. V[n + 1] + 0 = W[n + 1] + 0
      BY <2>1, <2>2, <3>1, <3>2
    <3> QED  BY <3>1, <3>3
  <2> QED  BY <2>3, <2>4, <2>5
<1>5. \A n \in Nat : n \in S
  <2> HIDE DEF S
  <2> QED  BY <1>3, <1>4, SetInduction
<1> QED  BY <1>5 DEF W, V

(***************************************************************************)
(* No weights, no sum.                                                     *)
(***************************************************************************)
LEMMA ExactSumZero ==
  ASSUME NEW w \in [Nat -> Nat], \A k \in Nat : w[k] = 0
  PROVE  \A n \in Nat : ExactSum(w)[n] = 0
<1> DEFINE W == ExactSum(w)
           S == {n \in Nat : W[n] = 0}
<1>1. W[0] = 0 /\ \A n \in Nat : W[n + 1] = W[n] + w[n + 1]
  BY ExactSumRecursion
<1> HIDE DEF W
<1>2. 0 \in S
  BY <1>1
<1>3. ASSUME NEW n \in Nat, n \in S PROVE n + 1 \in S
  BY <1>1, <1>3
<1>4. \A n \in Nat : n \in S
  <2> HIDE DEF S
  <2> QED  BY <1>2, <1>3, SetInduction
<1> QED  BY <1>4 DEF W

(***************************************************************************)
(* The u16 fold of reserved_slots_for_model is the exact sum capped at     *)
(* u16::MAX: it is exact whenever the exact sum fits.                      *)
(***************************************************************************)
LEMMA SaturatingSumIsCapped ==
  ASSUME NEW w \in [Nat -> Nat]
  PROVE  \A n \in Nat : SaturatingSum(w)[n] = IF ExactSum(w)[n] > MaxU16 THEN MaxU16
                                               ELSE ExactSum(w)[n]
<1> DEFINE W == ExactSum(w)
           f == [n \in Nat |-> IF W[n] > MaxU16 THEN MaxU16 ELSE W[n]]
           acc == SaturatingSum(w)
<1>1. /\ W \in [Nat -> Nat] /\ W[0] = 0
      /\ \A n \in Nat : W[n + 1] = W[n] + w[n + 1]
  BY ExactSumRecursion
<1> HIDE DEF W
<1>2. MaxU16 \in Nat
  BY MaxU16Assumption
<1>3. ASSUME NEW n \in Nat PROVE f[n + 1] = SaturatingAdd(f[n], w[n + 1])
  <2>1. W[n + 1] = W[n] + w[n + 1] /\ W[n] \in Nat /\ w[n + 1] \in Nat
    BY <1>1
  <2> QED  BY <1>2, <2>1 DEF SaturatingAdd
<1>4. f[0] = 0
  BY <1>1, <1>2
<1>5. f = [k \in Nat |-> IF k = 0 THEN 0 ELSE SaturatingAdd(f[k - 1], w[k])]
  <2>1. f = [k \in Nat |-> f[k]]
    OBVIOUS
  <2>2. ASSUME NEW k \in Nat PROVE f[k] = IF k = 0 THEN 0 ELSE SaturatingAdd(f[k - 1], w[k])
    <3>1. CASE k = 0
      BY <1>4, <3>1
    <3>2. CASE k # 0
      <4>1. k - 1 \in Nat /\ (k - 1) + 1 = k
        BY <3>2
      <4> HIDE DEF f
      <4> QED  BY <1>3, <3>2, <4>1
    <3> QED  BY <3>1, <3>2
  <2> HIDE DEF f
  <2> QED  BY <2>1, <2>2
<1> HIDE DEF f
<1>6. acc = [k \in Nat |-> IF k = 0 THEN 0 ELSE SaturatingAdd(acc[k - 1], w[k])]
  BY <1>5 DEF SaturatingSum
<1> HIDE DEF acc
<1>7. \A n \in Nat : acc[n] = f[n]
  <2> DEFINE S == {n \in Nat : acc[n] = f[n]}
  <2>1. 0 \in S
    BY <1>4, <1>6
  <2>2. ASSUME NEW n \in Nat, n \in S PROVE n + 1 \in S
    <3>1. acc[n + 1] = SaturatingAdd(acc[n], w[n + 1])
      BY <1>6
    <3> QED  BY <2>2, <3>1, <1>3
  <2>3. \A n \in Nat : n \in S
    <3> HIDE DEF S
    <3> QED  BY <2>1, <2>2, SetInduction
  <2> QED  BY <2>3
<1> QED  BY <1>7 DEF f, acc, W

(***************************************************************************)
(* Every nonempty set of positions of a sequence has a last one.           *)
(***************************************************************************)
LEMMA LastPosition ==
  ASSUME NEW n \in Nat, NEW T \in SUBSET (1 .. n), T # {}
  PROVE  \E i \in T : \A j \in T : j <= i
<1> DEFINE S == {k \in Nat : \A U \in SUBSET (1 .. k) : U # {} => \E i \in U : \A j \in U : j <= i}
<1>1. 0 \in S
  <2>1. ASSUME NEW U \in SUBSET (1 .. 0) PROVE U = {}
    <3>1. 1 .. 0 = {}
      OBVIOUS
    <3> QED  BY <3>1
  <2> QED  BY <2>1
<1>2. ASSUME NEW k \in Nat, k \in S PROVE k + 1 \in S
  <2> SUFFICES ASSUME NEW U \in SUBSET (1 .. k + 1), U # {}
               PROVE  \E i \in U : \A j \in U : j <= i
    OBVIOUS
  <2>1. CASE k + 1 \in U
    BY <2>1
  <2>2. CASE k + 1 \notin U
    <3>1. U \in SUBSET (1 .. k)
      BY <2>2
    <3> QED  BY <1>2, <3>1
  <2> QED  BY <2>1, <2>2
<1>3. \A k \in Nat : k \in S
  <2> HIDE DEF S
  <2> QED  BY <1>1, <1>2, SetInduction
<1> QED  BY <1>3

(***************************************************************************)
(* The BTreeMap of models is defined on the configured ids and gives each  *)
(* a u16, also when an id is configured twice.                             *)
(***************************************************************************)
LEMMA ModelsType ==
  /\ DOMAIN models \subseteq ModelIds
  /\ \A m \in DOMAIN models : models[m] \in 0 .. MaxU16
<1> DEFINE at(id) == {i \in DOMAIN ModelConfigs : ModelConfigs[i].id = id}
           last(id) == CHOOSE i \in at(id) : \A j \in at(id) : j <= i
<1>1. Len(ModelConfigs) \in Nat /\ DOMAIN ModelConfigs = 1 .. Len(ModelConfigs)
  BY ModelConfigsAssumption
<1>2. ASSUME NEW i \in DOMAIN ModelConfigs PROVE ModelConfigs[i] \in ModelConfig
  BY ModelConfigsAssumption
<1>3. DOMAIN models = {ModelConfigs[i].id : i \in DOMAIN ModelConfigs}
  BY DEF models
<1>4. DOMAIN models \subseteq ModelIds
  BY <1>2, <1>3 DEF ModelConfig
<1>5. ASSUME NEW m \in DOMAIN models PROVE models[m] \in 0 .. MaxU16
  <2>1. at(m) # {} /\ at(m) \in SUBSET (1 .. Len(ModelConfigs))
    BY <1>1, <1>3
  <2>2. \E i \in at(m) : \A j \in at(m) : j <= i
    <3> HIDE DEF at
    <3> QED  BY <1>1, <2>1, LastPosition
  <2>3. last(m) \in at(m)
    <3> HIDE DEF at
    <3> QED  BY <2>2
  <2>4. models[m] = ModelConfigs[last(m)].max_parallel_reservations
    BY <1>3 DEF models
  <2>5. last(m) \in DOMAIN ModelConfigs
    BY <2>3
  <2> HIDE DEF last
  <2> QED  BY <1>2, <2>4, <2>5 DEF ModelConfig
<1> QED  BY <1>4, <1>5

(***************************************************************************)
(* Weights and sums of a ledger are natural numbers.                       *)
(***************************************************************************)
LEMMA LedgerRecord ==
  ASSUME NEW rs \in Ledger
  PROVE  /\ DOMAIN rs \subseteq ReservationIds
         /\ \A k \in DOMAIN rs : rs[k] \in ModelReservation
  BY DEF Ledger

LEMMA SlotWeightsType ==
  ASSUME NEW rs \in Ledger, NEW m
  PROVE  SlotWeights(rs, m) \in [Nat -> Nat]
<1>1. ASSUME NEW k \in DOMAIN rs PROVE rs[k].requested_slots \in Nat
  BY LedgerRecord, MaxU16Assumption DEF ModelReservation
<1> QED  BY <1>1 DEF SlotWeights

LEMMA UsedSlotsType ==
  ASSUME NEW rs \in Ledger, NEW m
  PROVE  UsedSlots(rs, m) \in Nat
  BY SlotWeightsType, ExactSumRecursion, MaxU64Assumption DEF UsedSlots

(***************************************************************************)
(* Inserting a reservation adds its slots to its own model, and to no      *)
(* other; a reservation it replaces only frees slots.                      *)
(***************************************************************************)
Inserted(rs, id, r) == [k \in DOMAIN rs \cup {id} |-> IF k = id THEN r ELSE rs[k]]

Removed(rs, id) == [k \in DOMAIN rs \ {id} |-> rs[k]]

LEMMA InsertSlots ==
  ASSUME NEW rs \in Ledger, NEW id \in ReservationIds, NEW r \in ModelReservation
  PROVE  /\ Inserted(rs, id, r) \in Ledger
         /\ UsedSlots(Inserted(rs, id, r), r.model) <= UsedSlots(rs, r.model) + r.requested_slots
         /\ \A m : m # r.model => UsedSlots(Inserted(rs, id, r), m) <= UsedSlots(rs, m)
<1> DEFINE new == Inserted(rs, id, r)
<1>1. new \in Ledger
  <2>1. DOMAIN new = DOMAIN rs \cup {id} /\ DOMAIN new \in SUBSET ReservationIds
    BY LedgerRecord DEF Inserted
  <2>2. new \in [DOMAIN new -> ModelReservation]
    BY LedgerRecord DEF Inserted
  <2> HIDE DEF new
  <2> QED  BY <2>1, <2>2 DEF Ledger
<1>2. MaxU64 \in Nat /\ id \in Nat \ {0} /\ id <= MaxU64
  BY MaxU64Assumption DEF ReservationIds
<1>3. r.requested_slots \in Nat
  BY MaxU16Assumption DEF ModelReservation
<1>4. ASSUME NEW m
      PROVE  UsedSlots(new, m) + SlotWeights(rs, m)[id] = UsedSlots(rs, m) + SlotWeights(new, m)[id]
  <2>1. ASSUME NEW k \in Nat, k # id PROVE SlotWeights(new, m)[k] = SlotWeights(rs, m)[k]
    BY <2>1 DEF SlotWeights, Inserted
  <2>2. SlotWeights(new, m) \in [Nat -> Nat] /\ SlotWeights(rs, m) \in [Nat -> Nat]
    BY <1>1, SlotWeightsType
  <2> HIDE DEF new
  <2> QED  BY <1>2, <2>1, <2>2, ExactSumUpdate DEF UsedSlots
<1>5. ASSUME NEW m
      PROVE  SlotWeights(new, m)[id] = IF r.model = m THEN r.requested_slots ELSE 0
  BY <1>2 DEF SlotWeights, Inserted
<1>6. ASSUME NEW m
      PROVE  /\ UsedSlots(new, m) \in Nat /\ UsedSlots(rs, m) \in Nat
             /\ SlotWeights(rs, m)[id] \in Nat
  BY <1>1, <1>2, UsedSlotsType, SlotWeightsType
<1> HIDE DEF new
<1>7. UsedSlots(new, r.model) <= UsedSlots(rs, r.model) + r.requested_slots
  BY <1>3, <1>4, <1>5, <1>6
<1>8. ASSUME NEW m, m # r.model PROVE UsedSlots(new, m) <= UsedSlots(rs, m)
  BY <1>4, <1>5, <1>6, <1>8
<1> QED  BY <1>1, <1>7, <1>8 DEF new

(***************************************************************************)
(* Removing a reservation never adds slots to a model.                     *)
(***************************************************************************)
LEMMA RemoveSlots ==
  ASSUME NEW rs \in Ledger, NEW id \in ReservationIds
  PROVE  /\ Removed(rs, id) \in Ledger
         /\ \A m : UsedSlots(Removed(rs, id), m) <= UsedSlots(rs, m)
<1> DEFINE new == Removed(rs, id)
<1>1. new \in Ledger
  <2>1. DOMAIN new = DOMAIN rs \ {id} /\ DOMAIN new \in SUBSET ReservationIds
    BY LedgerRecord DEF Removed
  <2>2. new \in [DOMAIN new -> ModelReservation]
    BY LedgerRecord DEF Removed
  <2> HIDE DEF new
  <2> QED  BY <2>1, <2>2 DEF Ledger
<1>2. MaxU64 \in Nat /\ id \in Nat \ {0} /\ id <= MaxU64
  BY MaxU64Assumption DEF ReservationIds
<1>3. ASSUME NEW m PROVE UsedSlots(new, m) <= UsedSlots(rs, m)
  <2>1. ASSUME NEW k \in Nat, k # id PROVE SlotWeights(new, m)[k] = SlotWeights(rs, m)[k]
    BY <2>1 DEF SlotWeights, Removed
  <2>2. SlotWeights(new, m)[id] = 0
    BY <1>2 DEF SlotWeights, Removed
  <2>3. SlotWeights(new, m) \in [Nat -> Nat] /\ SlotWeights(rs, m) \in [Nat -> Nat]
    BY <1>1, SlotWeightsType
  <2>4. UsedSlots(new, m) \in Nat /\ UsedSlots(rs, m) \in Nat
    BY <1>1, UsedSlotsType
  <2> HIDE DEF new
  <2>5. UsedSlots(new, m) + SlotWeights(rs, m)[id] = UsedSlots(rs, m) + SlotWeights(new, m)[id]
    BY <1>2, <2>1, <2>3, ExactSumUpdate DEF UsedSlots
  <2>6. SlotWeights(rs, m)[id] \in Nat
    BY <1>2, <2>3
  <2> QED  BY <2>2, <2>4, <2>5, <2>6
<1> QED  BY <1>1, <1>3

(***************************************************************************)
(* The empty ledger uses no slots.                                         *)
(***************************************************************************)
LEMMA EmptyLedger ==
  ASSUME NEW rs, rs = [id \in {} |-> 0], NEW m
  PROVE  rs \in Ledger /\ UsedSlots(rs, m) = 0
<1>1. rs \in [{} -> ModelReservation] /\ DOMAIN rs = {}
  OBVIOUS
<1>2. rs \in Ledger
  BY <1>1 DEF Ledger
<1>3. \A k \in Nat : SlotWeights(rs, m)[k] = 0
  BY <1>1 DEF SlotWeights
<1>4. SlotWeights(rs, m) \in [Nat -> Nat]
  BY <1>2, SlotWeightsType
<1>5. UsedSlots(rs, m) = 0
  BY <1>3, <1>4, ExactSumZero, MaxU64Assumption DEF UsedSlots
<1> QED  BY <1>2, <1>5

(***************************************************************************)
(* What the answers are made of.                                           *)
(***************************************************************************)
LEMMA ReplyTypes ==
  /\ NoReply \in Reply /\ NoContent \in Reply /\ OpenAiModelListResponse \in Reply
  /\ \A e \in DOMAIN into_response : ErrorReply(e) \in Reply
  /\ \A n \in 0 .. MaxU16 : CapacityExceeded(n) \in Reply
  /\ \A rs \in Ledger : Listing(rs) \in Reply
  /\ \A i \in [DOMAIN models -> LocalModelInventory] : InventoryReply(i) \in Reply
  /\ \A id \in 1 .. MaxU64 : Completion(id) \in Reply
  /\ \A id \in ReservationIds, r \in ModelReservation : Created(id, r) \in Reply
  BY DEF Reply

\* A request that passes create_reservation's checks asks for a record the
\* ledger may hold.
WellFormed(r) == [model |-> r.model, consumer |-> r.consumer, requested_slots |-> r.requested_slots]

LEMMA CreateWellFormed ==
  ASSUME NEW r \in Requests, r.op = "create_reservation", RequestError(r) = "Ok"
  PROVE  /\ r.model \in DOMAIN models
         /\ r.requested_slots \in 1 .. MaxU16
         /\ WellFormed(r) \in ModelReservation
         /\ \A id : Created(id, WellFormed(r)) = Created(id, r)
<1>1. r \in CreateReservationRequest
  BY RequestsAssumption DEF Request, ReleaseRequest, OpenAiChatCompletionRequest, ReadRequest
<1>2. CreateError(r) = "Ok"
  BY DEF RequestError
<1>3. r.consumer # Blank /\ r.requested_slots # 0 /\ r.model \in DOMAIN models
  BY <1>2 DEF CreateError, ensure_model_exists
<1>4. r.consumer \in Consumers /\ r.requested_slots \in 0 .. MaxU16
  BY <1>1 DEF CreateReservationRequest
<1>5. r.requested_slots \in 1 .. MaxU16
  BY <1>3, <1>4, MaxU16Assumption
<1> QED  BY <1>3, <1>4, <1>5 DEF WellFormed, ModelReservation, Created

LEMMA RequestErrorType ==
  ASSUME NEW r, RequestError(r) # "Ok"
  PROVE  RequestError(r) \in DOMAIN into_response
  BY DEF RequestError, CreateError, ChatError, into_response

(***************************************************************************)
(* The statuses of the answers.                                            *)
(***************************************************************************)
LEMMA Statuses ==
  /\ NoReply.status = 0 /\ NoContent.status = 204 /\ OpenAiModelListResponse.status = 200
  /\ \A e \in DOMAIN into_response : ErrorReply(e).status \in {400, 404, 409, 501}
  /\ \A n : CapacityExceeded(n).status = 409
  /\ \A rs : Listing(rs).status = 200
  /\ \A i : InventoryReply(i).status = 200
  /\ \A id : Completion(id).status = 200 /\ Completion(id).completion_id = id
  /\ \A id, r : Created(id, r).status = 201 /\ Created(id, r).reservation_id = id
  BY DEF NoReply, NoContent, OpenAiModelListResponse, ErrorReply, CapacityExceeded, Listing,
         InventoryReply, Completion, Created, into_response

LEMMA OnlyChatCompletes ==
  /\ \A id : OpenAiModelListResponse # Completion(id)
  /\ \A id, rs : Listing(rs) # Completion(id)
  /\ \A id, i : InventoryReply(i) # Completion(id)
<1>1. \A id : "completion_id" \in DOMAIN Completion(id)
  BY DEF Completion
<1>2. /\ "completion_id" \notin DOMAIN OpenAiModelListResponse
      /\ \A rs : "completion_id" \notin DOMAIN Listing(rs)
      /\ \A i : "completion_id" \notin DOMAIN InventoryReply(i)
  BY DEF OpenAiModelListResponse, Listing, InventoryReply
<1> QED  BY <1>1, <1>2
=============================================================================
