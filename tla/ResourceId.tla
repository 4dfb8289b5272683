----------------------------- MODULE ResourceId -----------------------------
(***************************************************************************)
(* Resource ids: two generators shared by all threads give out base        *)
(* values; type, adapter and base value are packed into one word; the      *)
(* word becomes the poll's token and chooses the worker thread.            *)
(* A field of w bits is a digit of size 2^w, so packing is positional      *)
(* notation: BaseSize is 2^48, AdapterSize 2^7 and ReservedTag 0x55.       *)
(***************************************************************************)
EXTENDS Integers, Sequences

CONSTANTS BaseSize,     \* MAX_BASE_VALUE + 1
          AdapterSize,  \* MAX_ADAPTERS
          ReservedTag,  \* the reserved byte of a token
          AdapterIds,   \* Transport::id() of the transports in use
          WorkerNum     \* MULTIPLEXOR_WORKER_NUM

ASSUME ResourceIdAssumption ==
    /\ BaseSize \in Nat \ {0} /\ AdapterSize \in Nat \ {0} /\ ReservedTag \in Nat \ {0}
    /\ AdapterIds \subseteq 0 .. AdapterSize - 1
    /\ WorkerNum \in Nat \ {0}
\* Four workers, and a base of 48 bits.
ASSUME WorkersDivideBase == \E k \in 1 .. BaseSize : BaseSize = k * WorkerNum

VARIABLES last,    \* last[type]: ResourceIdGenerator.last
          issued   \* history: the ids in the order given out, with what they were made of

vars == <<last, issued>>

Types == {"Remote", "Local"}
WordSize == 2 * AdapterSize * BaseSize   \* the bits below the reserved byte

-----------------------------------------------------------------------------
\* ResourceId::new.
NewId(adapter, type, base) ==
    (IF type = "Local" THEN AdapterSize * BaseSize ELSE 0) + adapter * BaseSize + base

\* resource_type, adapter_id and base_value: mask and shift.
ResourceType(id) == IF (id \div (AdapterSize * BaseSize)) % 2 = 1 THEN "Local" ELSE "Remote"
AdapterId(id) == (id \div BaseSize) % AdapterSize
BaseValue(id) == id % BaseSize

\* Slip: the mask of the reserved byte is one bit too wide.
TokenOfWideMask(id) == (id % (WordSize \div 2)) + ReservedTag * WordSize

\* The token of an id, and the id of a token (poll.rs).
WakerToken == 0
TokenOf(id) == (id % WordSize) + ReservedTag * WordSize
IdOf(token) == token % WordSize

\* to_worker_index (node.rs).
WorkerOf(id) == id % WorkerNum

\* split_id_generator: one generator per type, both starting at 1.
Init == last = [type \in Types |-> 1] /\ issued = <<>>

\* Slip: read and increment are two steps, so two threads get one value.
GenerateTwice(type, adapter) ==
    /\ last[type] < BaseSize
    /\ last' \in {last, [last EXCEPT ![type] = @ + 1]}
    /\ issued' = Append(issued, [id |-> NewId(adapter, type, last[type]), type |-> type,
                                 adapter |-> adapter, base |-> last[type]])

\* ResourceIdGenerator::generate: fetch_add, then new.  Base values stay
\* below BaseSize, which the code asserts in debug builds.
Generate(type, adapter) ==
    /\ last[type] < BaseSize
    /\ last' = [last EXCEPT ![type] = @ + 1]
    /\ issued' = Append(issued, [id |-> NewId(adapter, type, last[type]), type |-> type,
                                 adapter |-> adapter, base |-> last[type]])

Next == \E type \in Types, adapter \in AdapterIds : Generate(type, adapter)

Spec == Init /\ [][Next]_vars

-----------------------------------------------------------------------------
\* No id is given out twice, to one adapter or to two, although remote and local ids
\* come from two generators that give out the same base values.
UniqueIds ==
    \A i, j \in DOMAIN issued : i # j =>
        /\ issued[i].id # issued[j].id
        /\ issued[i].type = issued[j].type => issued[i].base # issued[j].base

\* A poll event leads back to the resource that was registered: its token is not the
\* waker's, the fields of its id are those that were packed (so the adapter that made
\* it is dispatched to, and listeners are told from remotes), and its worker goes by
\* the base value alone, as NodeNetwork assumes.
TokenTellsResource ==
    \A k \in DOMAIN issued : LET i == issued[k]  id == IdOf(TokenOf(i.id)) IN
        /\ TokenOf(i.id) # WakerToken
        /\ ResourceType(id) = i.type /\ AdapterId(id) = i.adapter /\ BaseValue(id) = i.base
        /\ WorkerOf(id) = i.base % WorkerNum
=============================================================================
