------------------------- MODULE ResourceIdProofs -------------------------
(***************************************************************************)
(* Proofs about ResourceId, for every width of the fields: the fields of a *)
(* packed id can be told apart, so ids are unique although two generators  *)
(* count from the same value, and a token leads back to its resource.      *)
(***************************************************************************)
EXTENDS ResourceId, SequenceTheorems, TLAPS

\* An id that has been given out, and what it was made of.
Issued == [id : Nat, type : Types, adapter : AdapterIds, base : Nat]

Given(i) == i.id = NewId(i.adapter, i.type, i.base) /\ i.base < last[i.type]
Alike(i, j) == i.type = j.type /\ i.base = j.base

\* Each base value below the generator's has been given out at most once, and ids are
\* packed as NewId does.
IdInv ==
    /\ last \in [Types -> 1 .. BaseSize]
    /\ issued \in Seq(Issued)
    /\ \A k \in DOMAIN issued : Given(issued[k])
    /\ \A k, m \in DOMAIN issued : Alike(issued[k], issued[m]) => k = m

-----------------------------------------------------------------------------
(* Positional notation.                                                    *)

\* The two digits of a number in base n.
LEMMA Digits ==
  ASSUME NEW a \in Nat, NEW n \in Nat \ {0}, NEW b \in 0 .. n - 1
  PROVE  (a * n + b) \div n = a /\ (a * n + b) % n = b
OBVIOUS

\* A two-digit number is below the product of the sizes of its digits.
LEMMA DigitsBound ==
  ASSUME NEW m \in Nat, NEW n \in Nat \ {0}, NEW a \in 0 .. m - 1, NEW b \in 0 .. n - 1
  PROVE  a * n + b \in 0 .. m * n - 1
<1>1. a + 1 <= m /\ a * n \in Nat /\ (a + 1) * n = a * n + n
  OBVIOUS
<1>2. (a + 1) * n <= m * n
  BY <1>1
<1> QED
  BY <1>1, <1>2

\* Multiples of n do not count modulo n.
LEMMA ModMultiple ==
  ASSUME NEW a \in Nat, NEW n \in Nat \ {0}, NEW b \in Nat
  PROVE  (a * n + b) % n = b % n
<1> DEFINE q == b \div n
           r == b % n
<1>1. q \in Nat /\ r \in 0 .. n - 1 /\ b = q * n + r
  OBVIOUS
<1>2. a * n + b = (a + q) * n + r
  BY <1>1
<1>3. ((a + q) * n + r) % n = r
  <2> HIDE DEF q, r
  <2> QED
    BY <1>1, Digits
<1> QED
  BY <1>2, <1>3

-----------------------------------------------------------------------------
(* Packing.                                                                *)

\* An id is a number of two digits, over the two digits of type and adapter.
TypeDigit(type) == IF type = "Local" THEN 1 ELSE 0
Upper(type, adapter) == TypeDigit(type) * AdapterSize + adapter

\* The masks and shifts of ResourceId find the fields that ResourceId::new packed, an id
\* leaves the reserved byte free, and the worker index depends on the base value alone.
THEOREM FieldsRecovered ==
  ASSUME NEW type \in Types, NEW adapter \in AdapterIds, NEW base \in 0 .. BaseSize - 1
  PROVE  LET id == NewId(adapter, type, base) IN
         /\ id \in 0 .. WordSize - 1
         /\ ResourceType(id) = type /\ AdapterId(id) = adapter /\ BaseValue(id) = base
         /\ WorkerOf(id) = base % WorkerNum
<1> DEFINE id == NewId(adapter, type, base)
           u == Upper(type, adapter)
           d == TypeDigit(type)
<1>0. /\ BaseSize \in Nat \ {0} /\ AdapterSize \in Nat \ {0} /\ WorkerNum \in Nat \ {0}
      /\ adapter \in 0 .. AdapterSize - 1 /\ d \in 0 .. 1
      /\ AdapterSize * BaseSize \in Nat \ {0}
  BY ResourceIdAssumption DEF TypeDigit
<1>1. u \in 0 .. 2 * AdapterSize - 1 /\ u \div AdapterSize = d /\ u % AdapterSize = adapter
  <2>1. u = d * AdapterSize + adapter
    BY DEF Upper
  <2> HIDE DEF u, d
  <2> QED
    BY <1>0, <2>1, Digits, DigitsBound
<1>2. id = u * BaseSize + base
  <2>1. id = d * (AdapterSize * BaseSize) + (adapter * BaseSize + base)
    BY <1>0 DEF NewId, TypeDigit
  <2>2. u * BaseSize = d * (AdapterSize * BaseSize) + adapter * BaseSize
    BY <1>0 DEF Upper, TypeDigit
  <2> QED
    BY <1>0, <2>1, <2>2
<1>3. id \in 0 .. WordSize - 1
  <2> HIDE DEF u, d, id
  <2>1. id \in 0 .. (2 * AdapterSize) * BaseSize - 1
    BY <1>0, <1>1, <1>2, DigitsBound
  <2> QED
    BY <2>1 DEF WordSize
<1>4. id \div BaseSize = u /\ id % BaseSize = base
  <2> HIDE DEF u, d, id
  <2> QED
    BY <1>0, <1>1, <1>2, Digits
<1>5. id \div (AdapterSize * BaseSize) = d
  <2>1. id = d * (AdapterSize * BaseSize) + (adapter * BaseSize + base)
    BY <1>0 DEF NewId, TypeDigit
  <2> HIDE DEF u, d, id
  <2>2. adapter * BaseSize + base \in 0 .. AdapterSize * BaseSize - 1
    BY <1>0, DigitsBound
  <2> QED
    BY <1>0, <2>1, <2>2, Digits
<1>6. id % WorkerNum = base % WorkerNum
  <2>1. PICK k \in 1 .. BaseSize : BaseSize = k * WorkerNum
    BY WorkersDivideBase
  <2> HIDE DEF u, d, id
  <2>2. u * k \in Nat /\ u * BaseSize = (u * k) * WorkerNum
    BY <1>0, <1>1, <2>1
  <2> QED
    BY <1>0, <1>2, <2>2, ModMultiple
<1>7. ResourceType(id) = type
  BY <1>5 DEF ResourceType, TypeDigit, Types
<1>8. AdapterId(id) = adapter /\ BaseValue(id) = base
  BY <1>1, <1>4 DEF AdapterId, BaseValue
<1> QED
  BY <1>3, <1>6, <1>7, <1>8 DEF WorkerOf

\* The poll's token of an id is not the waker's, and the id of the token is that id.
THEOREM TokenRoundTrip ==
  ASSUME NEW id \in 0 .. WordSize - 1
  PROVE  TokenOf(id) # WakerToken /\ IdOf(TokenOf(id)) = id
<1>1. /\ WordSize \in Nat \ {0} /\ ReservedTag \in Nat \ {0}
  BY ResourceIdAssumption DEF WordSize
<1>2. id % WordSize = id
  BY <1>1
<1>3. ReservedTag * WordSize \in Nat \ {0}
  BY <1>1
<1>4. (ReservedTag * WordSize + id) % WordSize = id
  BY <1>1, Digits
<1> QED
  BY <1>1, <1>2, <1>3, <1>4 DEF TokenOf, IdOf, WakerToken

-----------------------------------------------------------------------------
(* The generators.                                                         *)

\* The inductive invariant: a generator never gives out a value twice.
THEOREM IdInvInvariant == Spec => []IdInv
<1>1. Init => IdInv
  <2>1. <<>> \in Seq(Issued) /\ DOMAIN <<>> = {}
    BY EmptySeq
  <2> QED
    BY <2>1, ResourceIdAssumption DEF Init, IdInv, Types
<1>2. IdInv /\ [Next]_vars => IdInv'
  <2> SUFFICES ASSUME IdInv, [Next]_vars PROVE IdInv'
    OBVIOUS
  <2>1. CASE UNCHANGED vars
    BY <2>1 DEF vars, IdInv, Given
  <2>2. ASSUME NEW type \in Types, NEW adapter \in AdapterIds, Generate(type, adapter)
        PROVE  IdInv'
    <3> DEFINE new == [id |-> NewId(adapter, type, last[type]), type |-> type,
                       adapter |-> adapter, base |-> last[type]]
    <3>1. last[type] \in 1 .. BaseSize - 1 /\ BaseSize \in Nat
      BY <2>2, ResourceIdAssumption DEF Generate, IdInv
    <3>2. NewId(adapter, type, last[type]) \in Nat
      BY <3>1, FieldsRecovered
    <3>3. new \in Issued
      BY <3>1, <3>2 DEF Issued
    <3>4. /\ issued' = Append(issued, new) /\ issued \in Seq(Issued)
          /\ last' \in [Types -> 1 .. BaseSize] /\ last'[type] = last[type] + 1
          /\ \A u \in Types : last[u] \in Int /\ last[u] <= last'[u]
      BY <2>2, <3>1 DEF Generate, IdInv
    <3>5. /\ new.id = NewId(new.adapter, new.type, new.base)
          /\ new.type = type /\ new.base = last[type]
      OBVIOUS
    <3> HIDE DEF new
    <3> DEFINE n == Len(issued)
    <3>6. /\ n \in Nat /\ DOMAIN issued = 1 .. n /\ DOMAIN issued' = 1 .. n + 1
          /\ issued' \in Seq(Issued) /\ issued'[n + 1] = new
          /\ \A k \in 1 .. n : issued'[k] = issued[k] /\ issued[k] \in Issued
      BY <3>3, <3>4, AppendProperties, ElementOfSeq, LenProperties
    <3> HIDE DEF n
    <3>7. ASSUME NEW k \in 1 .. n
          PROVE  /\ issued[k].type \in Types /\ issued[k].base \in Nat
                 /\ Given(issued[k]) /\ ~Alike(issued[k], new) /\ ~Alike(new, issued[k])
      <4>1. issued[k].type \in Types /\ issued[k].base \in Nat /\ Given(issued[k])
        BY <3>6 DEF IdInv, Issued
      <4> QED
        BY <3>1, <3>5, <4>1 DEF Given, Alike
    <3>8. ASSUME NEW k \in 1 .. n + 1 PROVE Given(issued[k])'
      <4>1. CASE k \in 1 .. n
        BY <3>4, <3>6, <3>7, <4>1 DEF Given
      <4>2. CASE k = n + 1
        BY <3>1, <3>4, <3>5, <3>6, <4>2 DEF Given
      <4> QED
        BY <3>6, <4>1, <4>2
    <3>9. ASSUME NEW k \in 1 .. n + 1, NEW m \in 1 .. n + 1, Alike(issued'[k], issued'[m])
          PROVE  k = m
      <4>1. CASE k \in 1 .. n /\ m \in 1 .. n
        BY <3>6, <3>9, <4>1 DEF IdInv
      <4>2. CASE k = n + 1 \/ m = n + 1
        BY <3>6, <3>7, <3>9, <4>2
      <4> QED
        BY <3>6, <4>1, <4>2
    <3> QED
      BY <3>4, <3>6, <3>8, <3>9 DEF IdInv, Alike
  <2> QED
    BY <2>1, <2>2 DEF Next
<1> QED
  BY <1>1, <1>2, PTL DEF Spec

\* An id that has been given out has fields within their widths.
LEMMA IssuedFields ==
  ASSUME IdInv, NEW k \in DOMAIN issued
  PROVE  LET i == issued[k] IN
         /\ i.type \in Types /\ i.adapter \in AdapterIds /\ i.base \in 0 .. BaseSize - 1
         /\ i.id = NewId(i.adapter, i.type, i.base)
<1>1. issued[k] \in Issued /\ Given(issued[k])
  BY ElementOfSeq, LenProperties DEF IdInv
<1> QED
  BY <1>1, ResourceIdAssumption DEF IdInv, Issued, Given

\* No two resources of a node share an id (ResourceIdGenerator::generate), for every
\* width of the fields and every set of adapters.
THEOREM UniqueIdsHolds == Spec => []UniqueIds
<1>1. IdInv => UniqueIds
  <2> SUFFICES ASSUME IdInv, NEW k \in DOMAIN issued, NEW m \in DOMAIN issued,
                      issued[k].id = issued[m].id \/ Alike(issued[k], issued[m])
               PROVE  k = m
    BY DEF UniqueIds, Alike
  <2>1. Alike(issued[k], issued[m])
    BY IssuedFields, FieldsRecovered DEF Alike
  <2> QED
    BY <2>1 DEF IdInv
<1> QED
  BY <1>1, IdInvInvariant, PTL

\* The token that a poll event carries leads back to the resource that was registered,
\* its adapter and its worker (poll.rs and to_worker_index of node.rs).
THEOREM TokenTellsResourceHolds == Spec => []TokenTellsResource
<1>1. IdInv => TokenTellsResource
  <2> SUFFICES ASSUME IdInv, NEW k \in DOMAIN issued, NEW i, i = issued[k]
               PROVE  LET id == IdOf(TokenOf(i.id)) IN
                        /\ TokenOf(i.id) # WakerToken
                        /\ ResourceType(id) = i.type /\ AdapterId(id) = i.adapter
                        /\ BaseValue(id) = i.base
                        /\ WorkerOf(id) = i.base % WorkerNum
    BY DEF TokenTellsResource
  <2>1. /\ i.type \in Types /\ i.adapter \in AdapterIds /\ i.base \in 0 .. BaseSize - 1
        /\ i.id = NewId(i.adapter, i.type, i.base)
    BY IssuedFields
  <2>2. /\ i.id \in 0 .. WordSize - 1
        /\ ResourceType(i.id) = i.type /\ AdapterId(i.id) = i.adapter /\ BaseValue(i.id) = i.base
        /\ WorkerOf(i.id) = i.base % WorkerNum
    BY <2>1, FieldsRecovered
  <2>3. TokenOf(i.id) # WakerToken /\ IdOf(TokenOf(i.id)) = i.id
    BY <2>2, TokenRoundTrip
  <2> QED
    BY <2>2, <2>3
<1> QED
  BY <1>1, IdInvInvariant, PTL
====
