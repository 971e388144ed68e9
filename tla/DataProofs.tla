----------------------------- MODULE DataProofs -----------------------------
(***************************************************************************)
(* The data structures and algorithms, for every capacity and every input. *)
(***************************************************************************)
EXTENDS MCData, MqttTopicProofs, FiniteSetTheorems, SequenceTheorems, WellFoundedInduction, TLAPS

-----------------------------------------------------------------------------
(* The bitmaps of image_common.c: their bytes implement sets of chunk     *)
(* indices, for every bitmap size and every number of chunks that fits it. *)

Index == 0..(total_chunks - 1)

(* A chunk's byte and bit: inside the bitmap, inside the bytes that the    *)
(* copies move, and different chunks have different bits.                  *)
LEMMA BytesAndBits ==
    /\ \A i \in Index : /\ i \div 8 \in 0..(BitmapSize - 1)
                        /\ i % 8 \in 0..7
                        /\ i \div 8 < BitmapLen
    /\ \A i, j \in Index : (i \div 8 = j \div 8 /\ i % 8 = j % 8) => i = j
    /\ Probed \subseteq Index
BY BitmapAssumption DEF Index, BitmapLen

(* bitmap_set adds exactly the chunk it is given.                          *)
LEMMA SetAdds ==
    ASSUME NEW b \in Bitmap, NEW i \in Index
    PROVE  bitmap_set(b, i) \in Bitmap /\ SetOf(bitmap_set(b, i)) = SetOf(b) \cup {i}
<1>1. bitmap_set(b, i) \in Bitmap
  BY BytesAndBits DEF bitmap_set, Bitmap
<1>2. \A j \in Index : bitmap_is_set(bitmap_set(b, i), j) <=> (bitmap_is_set(b, j) \/ j = i)
  <2> SUFFICES ASSUME NEW j \in Index
               PROVE  bitmap_is_set(bitmap_set(b, i), j) <=> (bitmap_is_set(b, j) \/ j = i)
    OBVIOUS
  <2>1. CASE j \div 8 = i \div 8
    BY <2>1, BytesAndBits DEF bitmap_set, bitmap_is_set, Bitmap
  <2>2. CASE j \div 8 # i \div 8
    BY <2>2, BytesAndBits DEF bitmap_set, bitmap_is_set, Bitmap
  <2> QED
    BY <2>1, <2>2
<1> QED
  BY <1>1, <1>2 DEF SetOf, Index

(* bitmap_clear_bit removes exactly the chunk it is given.                 *)
LEMMA ClearRemoves ==
    ASSUME NEW b \in Bitmap, NEW i \in Index
    PROVE  bitmap_clear_bit(b, i) \in Bitmap /\ SetOf(bitmap_clear_bit(b, i)) = SetOf(b) \ {i}
<1>1. bitmap_clear_bit(b, i) \in Bitmap
  BY BytesAndBits DEF bitmap_clear_bit, Bitmap
<1>2. \A j \in Index : bitmap_is_set(bitmap_clear_bit(b, i), j) <=> (bitmap_is_set(b, j) /\ j # i)
  <2> SUFFICES ASSUME NEW j \in Index
               PROVE  bitmap_is_set(bitmap_clear_bit(b, i), j) <=> (bitmap_is_set(b, j) /\ j # i)
    OBVIOUS
  <2>1. CASE j \div 8 = i \div 8
    BY <2>1, BytesAndBits DEF bitmap_clear_bit, bitmap_is_set, Bitmap
  <2>2. CASE j \div 8 # i \div 8
    BY <2>2, BytesAndBits DEF bitmap_clear_bit, bitmap_is_set, Bitmap
  <2> QED
    BY <2>1, <2>2
<1> QED
  BY <1>1, <1>2 DEF SetOf, Index

(* The copy by bitmap_len bytes keeps every chunk of the image.            *)
LEMMA CopyKeeps ==
    ASSUME NEW b \in Bitmap
    PROVE  CopyOf(b, BitmapLen) \in Bitmap /\ SetOf(CopyOf(b, BitmapLen)) = SetOf(b)
<1>1. CopyOf(b, BitmapLen) \in Bitmap
  BY DEF CopyOf, Bitmap
<1>2. \A j \in Index : CopyOf(b, BitmapLen)[j \div 8] = b[j \div 8]
  BY BytesAndBits DEF CopyOf
<1> QED
  BY <1>1, <1>2 DEF SetOf, Index, bitmap_is_set

(* An all-zero bitmap is the empty set, and clearing every byte makes one. *)
LEMMA ZeroIsEmpty ==
    /\ Zero \in Bitmap /\ SetOf(Zero) = {}
    /\ \A b \in Bitmap : bitmap_clear_all(b, BitmapSize) = Zero
<1>1. Zero \in Bitmap
  BY DEF Zero, Bitmap
<1>2. SetOf(Zero) = {}
  BY BytesAndBits DEF SetOf, Index, bitmap_is_set, Zero
<1>3. \A b \in Bitmap : bitmap_clear_all(b, BitmapSize) = Zero
  BY BitmapAssumption DEF bitmap_clear_all, Zero
<1> QED
  BY <1>1, <1>2, <1>3

(* The bitmaps keep their size and their bytes eight bits.                 *)
THEOREM BitmapTypeCorrect == Spec => []TypeOK
<1>1. Init => TypeOK
  BY ZeroIsEmpty DEF Init, TypeOK
<1>2. TypeOK /\ [Next]_vars => TypeOK'
  <2> SUFFICES ASSUME TypeOK, [Next]_vars PROVE TypeOK'
    OBVIOUS
  <2> USE DEF TypeOK
  <2>1. CASE \E i \in Probed : Set(i) \/ ClearBit(i)
    BY <2>1, BytesAndBits, SetAdds, ClearRemoves DEF Set, ClearBit
  <2>2. CASE ClearAll
    BY <2>2, ZeroIsEmpty DEF ClearAll
  <2>3. CASE BuildAckBitmap
    BY <2>3, CopyKeeps DEF BuildAckBitmap
  <2>4. CASE ParseAckBitmap
    BY <2>4, CopyKeeps DEF ParseAckBitmap
  <2>5. CASE UNCHANGED vars
    BY <2>5 DEF vars
  <2> QED
    BY <2>1, <2>2, <2>3, <2>4, <2>5 DEF Next
<1> QED
  BY <1>1, <1>2, PTL DEF Spec

(* bitmap_set, bitmap_clear_bit, bitmap_clear_all and the two copies do to *)
(* the bytes what the other modules do to sets of chunk indices.           *)
THEOREM BytesImplementSets == Spec => ImplementsSets
<1>1. Init => Sets!Init
  BY ZeroIsEmpty DEF Init, Sets!Init
<1>2. TypeOK /\ [Next]_vars => [Sets!Next]_(Sets!vars)
  <2> SUFFICES ASSUME TypeOK, [Next]_vars PROVE [Sets!Next]_(Sets!vars)
    OBVIOUS
  <2> USE DEF TypeOK
  <2>1. CASE \E i \in Probed : Set(i) \/ ClearBit(i)
    <3> PICK i \in Probed : Set(i) \/ ClearBit(i)
      BY <2>1
    <3>1. i \in Index
      BY BytesAndBits
    <3>2. CASE Set(i)
      <4>1. Sets!Mark(i)
        BY <3>1, <3>2, SetAdds DEF Set, Sets!Mark
      <4> QED
        BY <4>1 DEF Sets!Next
    <3>3. CASE ClearBit(i)
      <4>1. Sets!Unmark(i)
        BY <3>1, <3>3, ClearRemoves DEF ClearBit, Sets!Unmark
      <4> QED
        BY <4>1 DEF Sets!Next
    <3> QED
      BY <3>2, <3>3
  <2>2. CASE ClearAll
    <3>1. Sets!Clear
      BY <2>2, ZeroIsEmpty DEF ClearAll, Sets!Clear
    <3> QED
      BY <3>1 DEF Sets!Next
  <2>3. CASE BuildAckBitmap
    <3>1. Sets!FillAck
      BY <2>3, CopyKeeps DEF BuildAckBitmap, Sets!FillAck
    <3> QED
      BY <3>1 DEF Sets!Next
  <2>4. CASE ParseAckBitmap
    <3>1. Sets!TakeAck
      BY <2>4, CopyKeeps DEF ParseAckBitmap, Sets!TakeAck
    <3> QED
      BY <3>1 DEF Sets!Next
  <2>5. CASE UNCHANGED vars
    BY <2>5 DEF vars, Sets!vars
  <2> QED
    BY <2>1, <2>2, <2>3, <2>4, <2>5 DEF Next
<1> QED
  BY <1>1, <1>2, BitmapTypeCorrect, PTL DEF Spec, ImplementsSets, Sets!Spec

-----------------------------------------------------------------------------
(* array_simple_binary_search *)

count == Len(call.nums)

CallOK ==
    /\ call.fn = "binary_search"
    /\ call.nums \in Seq(Int)
    /\ call.target \in Int
    /\ Sorted(call.nums)

LocOK == loc \in [left : 0..count, right : -1..(count - 1)] /\ loc.left <= loc.right + 1

(* The target is nowhere but between left and right. *)
OutsideIsOther ==
    /\ \A j \in 0..(count - 1) : j < loc.left => At(j) < call.target
    /\ \A j \in 0..(count - 1) : j > loc.right => At(j) > call.target

SearchInv == CallOK /\ LocOK /\ OutsideIsOther /\ SearchIsRight

LEMMA ArraysAreSequences ==
    ASSUME NEW k \in Nat, NEW nums \in [1..k -> Keys]
    PROVE  nums \in Seq(Int) /\ Len(nums) = k
<1>1. nums \in [1..k -> Int]
  BY KeysAssumption
<1> QED
  BY <1>1

LEMMA SearchInitInv == SearchInit => SearchInv
<1> SUFFICES ASSUME SearchInit PROVE SearchInv
  OBVIOUS
<1> DEFINE nums == call.nums
           t == call.target
<1>0. nums \in UNION {[1..m -> Keys] : m \in 0..MaxKeys} /\ Sorted(nums) /\ t \in Keys
      /\ call.fn = "binary_search"
  BY DEF SearchInit, Searches, SortedArrays
<1>1. PICK k \in 0..MaxKeys : nums \in [1..k -> Keys]
  BY <1>0
<1>2. nums \in Seq(Int) /\ Len(nums) = k
  BY <1>0, <1>1, ArraysAreSequences, KeysAssumption
<1>3. CallOK
  BY <1>0, <1>2, KeysAssumption DEF CallOK
<1>4. loc = [left |-> 0, right |-> k - 1] /\ count = k
  BY <1>2 DEF SearchInit, SearchEntry, count
<1>5. LocOK /\ OutsideIsOther
  BY <1>4 DEF LocOK, OutsideIsOther
<1> QED
  BY <1>3, <1>5 DEF SearchInv, SearchInit, SearchIsRight

(* While something remains, its middle lies in it. *)
LEMMA MidIsInside ==
    ASSUME SearchInv, Remains
    PROVE  /\ mid \in 0..(count - 1)
           /\ loc.left <= mid /\ mid <= loc.right
           /\ \A j \in 0..(count - 1) : At(j) \in Int
           /\ \A j, l \in 0..(count - 1) : j <= l => At(j) <= At(l)
<1>1. /\ count \in Nat /\ loc.left \in Int /\ loc.right \in Int
      /\ 0 <= loc.left /\ loc.right <= count - 1 /\ loc.left <= loc.right
  BY DEF SearchInv, CallOK, LocOK, Remains, count
<1>2. mid \in 0..(count - 1) /\ loc.left <= mid /\ mid <= loc.right
  BY <1>1 DEF mid
<1>3. \A j \in 0..(count - 1) : j + 1 \in 1..count /\ At(j) \in Int
  BY DEF SearchInv, CallOK, At, count
<1>4. \A j, l \in 0..(count - 1) : j <= l => At(j) <= At(l)
  BY <1>3 DEF SearchInv, CallOK, At, count, Sorted
<1> QED
  BY <1>2, <1>3, <1>4

LEMMA SearchStepKeepsInv ==
    ASSUME SearchInv, binary_search
    PROVE  SearchInv'
<1>1. call' = call /\ CallOK' /\ count' = count /\ ret = <<>> /\ count \in Nat
  BY DEF binary_search, GoRight, Goes, Returns, Runs, SearchInv, CallOK, count
<1>2. CASE Remains /\ At(mid) = call.target /\ Returns(mid)
  BY <1>1, <1>2, MidIsInside DEF Returns, SearchInv, LocOK, OutsideIsOther, SearchIsRight, At, count
<1>3. CASE Remains /\ At(mid) < call.target /\ GoRight
  <2>1. loc' = [loc EXCEPT !.left = mid + 1] /\ ret' = ret
    BY <1>3 DEF GoRight, Goes
  <2>2. loc'.left = mid + 1 /\ loc'.right = loc.right /\ LocOK'
    <3>1. PICK m : m = mid
      OBVIOUS
    <3>2. /\ loc = [left |-> loc.left, right |-> loc.right]
          /\ loc.left \in 0..count /\ loc.right \in -1..(count - 1)
      BY DEF SearchInv, LocOK
    <3>3. m \in 0..(count - 1) /\ m <= loc.right
      BY <1>3, <3>1, MidIsInside
    <3>4. loc' = [left |-> m + 1, right |-> loc.right]
      BY <2>1, <3>1, <3>2
    <3>5. m + 1 \in 0..count /\ m + 1 <= loc.right + 1
      BY <1>1, <3>2, <3>3
    <3> QED
      BY <1>1, <3>1, <3>2, <3>4, <3>5 DEF LocOK
  <2>3. \A j \in 0..(count - 1) : j < mid + 1 => At(j) < call.target
    <3> SUFFICES ASSUME NEW j \in 0..(count - 1), j < mid + 1 PROVE At(j) < call.target
      OBVIOUS
    <3>1. mid \in 0..(count - 1) /\ j <= mid
      BY <1>3, MidIsInside
    <3>2. At(j) <= At(mid) /\ At(j) \in Int /\ At(mid) \in Int
      BY <1>3, <3>1, MidIsInside
    <3> QED
      BY <1>3, <3>2 DEF SearchInv, CallOK
  <2>4. OutsideIsOther'
    BY <1>1, <2>2, <2>3 DEF SearchInv, OutsideIsOther, At
  <2> QED
    BY <1>1, <2>1, <2>2, <2>4 DEF SearchInv, SearchIsRight
<1>4. CASE Remains /\ At(mid) > call.target /\ Goes([loc EXCEPT !.right = mid - 1])
  <2>1. loc' = [loc EXCEPT !.right = mid - 1] /\ ret' = ret
    BY <1>4 DEF Goes
  <2>2. loc'.right = mid - 1 /\ loc'.left = loc.left /\ LocOK'
    BY <1>1, <2>1, <1>4, MidIsInside DEF SearchInv, LocOK
  <2>3. \A j \in 0..(count - 1) : j > mid - 1 => At(j) > call.target
    <3> SUFFICES ASSUME NEW j \in 0..(count - 1), j > mid - 1 PROVE At(j) > call.target
      OBVIOUS
    <3>1. mid \in 0..(count - 1) /\ mid <= j
      BY <1>4, MidIsInside
    <3>2. At(mid) <= At(j) /\ At(j) \in Int /\ At(mid) \in Int
      BY <1>4, <3>1, MidIsInside
    <3> QED
      BY <1>4, <3>2 DEF SearchInv, CallOK
  <2>4. OutsideIsOther'
    BY <1>1, <2>2, <2>3 DEF SearchInv, OutsideIsOther, At
  <2> QED
    BY <1>1, <2>1, <2>2, <2>4 DEF SearchInv, SearchIsRight
<1>5. CASE ~Remains /\ Returns(-1)
  <2>1. loc' = loc /\ ret' = <<-1>> /\ LocOK' /\ OutsideIsOther'
    BY <1>1, <1>5 DEF Returns, SearchInv, LocOK, OutsideIsOther, At
  <2>2. \A j \in 0..(count - 1) : At(j) # call.target
    <3> SUFFICES ASSUME NEW j \in 0..(count - 1) PROVE At(j) # call.target
      OBVIOUS
    <3>1. j < loc.left \/ j > loc.right
      BY <1>5 DEF Remains, SearchInv, LocOK
    <3>2. At(j) \in Int /\ call.target \in Int
      BY DEF SearchInv, CallOK, At, count
    <3> QED
      BY <3>1, <3>2 DEF SearchInv, OutsideIsOther
  <2>3. \A i \in 1..count : call.nums[i] # call.target
    <3> SUFFICES ASSUME NEW i \in 1..count PROVE call.nums[i] # call.target
      OBVIOUS
    <3>1. i - 1 \in 0..(count - 1) /\ At(i - 1) = call.nums[i]
      BY <1>1 DEF At
    <3> QED
      BY <2>2, <3>1
  <2>4. SearchIsRight'
    BY <1>1, <2>1, <2>3 DEF SearchIsRight, count
  <2> QED
    BY <1>1, <2>1, <2>4 DEF SearchInv
<1> QED
  BY <1>2, <1>3, <1>4, <1>5 DEF binary_search

(* Whatever binary_search returns is right, for sorted arrays of any       *)
(* length and integers of any size.                                        *)
THEOREM SearchRight == SearchSpec => []SearchIsRight
<1>1. SearchInv /\ [binary_search]_frameVars => SearchInv'
  <2>1. ASSUME SearchInv, UNCHANGED frameVars PROVE SearchInv'
    BY <2>1 DEF frameVars, SearchInv, CallOK, LocOK, OutsideIsOther, SearchIsRight, count, At
  <2> QED
    BY <2>1, SearchStepKeepsInv
<1>2. SearchInv => SearchIsRight
  BY DEF SearchInv
<1> QED
  BY <1>1, <1>2, SearchInitInv, PTL DEF SearchSpec

-----------------------------------------------------------------------------
(* queue_simple_circular_queue *)

Capacity == QUEUE_CAPACITY

(* The cell after one, and the k-th after the front, without a division. *)
After(x) == IF x + 1 = Capacity THEN 0 ELSE x + 1

Cell(k) == IF front + k < Capacity THEN front + k ELSE front + k - Capacity

(* rear is the first cell after the last item. *)
RearIsAfterItems == rear = IF front + size < Capacity THEN front + size ELSE front + size - Capacity

RingInv == RingOK /\ RearIsAfterItems

LEMMA ModOnce ==
    ASSUME NEW x \in Nat, x < 2 * Capacity
    PROVE  x % Capacity = IF x < Capacity THEN x ELSE x - Capacity
BY CapacityAssumption DEF Capacity

LEMMA AfterIsNext ==
    ASSUME NEW x \in Cells
    PROVE  (x + 1) % Capacity = After(x) /\ After(x) \in Cells
<1>1. x \in Nat /\ x < Capacity /\ Capacity \in Nat \ {0}
  BY CapacityAssumption DEF Cells, Capacity
<1>2. (x + 1) % Capacity = IF x + 1 < Capacity THEN x + 1 ELSE x + 1 - Capacity
  BY <1>1, ModOnce
<1> QED
  BY <1>1, <1>2 DEF After, Cells, Capacity

LEMMA CellIsCell ==
    ASSUME RingOK, NEW k \in 0..Capacity
    PROVE  (front + k) % Capacity = Cell(k) /\ Cell(k) \in Cells
<1>1. front \in Nat /\ front < Capacity /\ Capacity \in Nat \ {0} /\ k \in Nat /\ k <= Capacity
  BY CapacityAssumption DEF RingOK, Cells, Capacity
<1>2. (front + k) % Capacity = IF front + k < Capacity THEN front + k ELSE front + k - Capacity
  BY <1>1, ModOnce
<1> QED
  BY <1>1, <1>2 DEF Cell, Cells, Capacity

(* The items, one by one. *)
LEMMA ItemsAre ==
    ASSUME RingOK
    PROVE  /\ Items = [k \in 1..size |-> data[Cell(k - 1)]]
           /\ Items \in Seq(Value)
           /\ Len(Items) = size
<1>1. size \in Nat /\ size <= Capacity /\ Capacity \in Nat
  BY CapacityAssumption DEF RingOK, Capacity
<1>2. \A k \in 1..size : (front + k - 1) % Capacity = Cell(k - 1) /\ Cell(k - 1) \in Cells
  <2> SUFFICES ASSUME NEW k \in 1..size
               PROVE  (front + k - 1) % Capacity = Cell(k - 1) /\ Cell(k - 1) \in Cells
    OBVIOUS
  <2>1. k - 1 \in 0..Capacity /\ front \in Int
    BY <1>1 DEF RingOK, Cells
  <2>2. front + k - 1 = front + (k - 1)
    BY <2>1
  <2> QED
    BY <2>1, <2>2, CellIsCell
<1>3. \A k \in 1..size : data[Cell(k - 1)] \in Value
  BY <1>2 DEF RingOK
<1>4. Items = [k \in 1..size |-> data[Cell(k - 1)]]
  BY <1>2 DEF Items, Capacity
<1>5. Items \in [1..size -> Value]
  BY <1>3, <1>4
<1> QED
  BY <1>1, <1>4, <1>5

LEMMA RingInitInv == queue_init => RingInv
BY CapacityAssumption DEF queue_init, RingInv, RingOK, RearIsAfterItems, Cells, Capacity

LEMMA PushKeepsInv ==
    ASSUME RingInv, NEW value \in Value, queue_push(value)
    PROVE  RingInv'
<1>1. CASE queue_full /\ UNCHANGED <<data, front, rear, size>> /\ answer' = <<>>
  BY <1>1 DEF RingInv, RingOK, RearIsAfterItems
<1>2. CASE ~queue_full
  <2>1. rear' = After(rear) /\ After(rear) \in Cells
    BY <1>2, AfterIsNext DEF queue_push, RingInv, RingOK, Capacity
  <2>2. size < Capacity /\ size \in Nat /\ Capacity \in Nat \ {0} /\ front \in Nat /\ front < Capacity
    BY <1>2, CapacityAssumption DEF queue_full, RingInv, RingOK, Capacity, Cells
  <2>3. RingOK'
    BY <1>2, <2>1, <2>2 DEF queue_push, RingInv, RingOK, Capacity
  <2>4. RearIsAfterItems'
    BY <1>2, <2>1, <2>2 DEF queue_push, RingInv, RearIsAfterItems, After, Capacity
  <2> QED
    BY <2>3, <2>4 DEF RingInv
<1> QED
  BY <1>1, <1>2 DEF queue_push

LEMMA PopKeepsInv ==
    ASSUME RingInv, queue_pop
    PROVE  RingInv'
<1>1. CASE queue_empty /\ UNCHANGED <<data, front, rear, size>> /\ answer' = <<>>
  BY <1>1 DEF RingInv, RingOK, RearIsAfterItems
<1>2. CASE ~queue_empty
  <2>1. front' = After(front) /\ After(front) \in Cells
    BY <1>2, AfterIsNext DEF queue_pop, RingInv, RingOK, Capacity
  <2>2. size > 0 /\ size \in Nat /\ size <= Capacity /\ Capacity \in Nat \ {0} /\ front \in Nat /\ front < Capacity
    BY <1>2, CapacityAssumption DEF queue_empty, RingInv, RingOK, Capacity, Cells
  <2>3. data[front] \in Value
    BY DEF RingInv, RingOK
  <2>4. RingOK'
    BY <1>2, <2>1, <2>2, <2>3 DEF queue_pop, RingInv, RingOK, Capacity
  <2>5. RearIsAfterItems'
    BY <1>2, <2>1, <2>2 DEF queue_pop, RingInv, RearIsAfterItems, After, Capacity
  <2> QED
    BY <2>4, <2>5 DEF RingInv
<1> QED
  BY <1>1, <1>2 DEF queue_pop

LEMMA RingStepKeepsInv == RingInv /\ [RingNext]_ringVars => RingInv'
<1>1. ASSUME RingInv, UNCHANGED ringVars PROVE RingInv'
  BY <1>1 DEF ringVars, RingInv, RingOK, RearIsAfterItems
<1> QED
  BY <1>1, PushKeepsInv, PopKeepsInv DEF RingNext

(* Indices stay in the ring, and the size between nothing and its capacity, *)
(* whatever is pushed and popped (queue_push, queue_pop).                   *)
THEOREM RingTypeCorrect == RingSpec => []RingOK
<1>1. RingInv => RingOK
  BY DEF RingInv
<1> QED
  BY <1>1, RingInitInv, RingStepKeepsInv, PTL DEF RingSpec

LEMMA ItemsAreNext ==
    RingOK' => /\ Items' = [k \in 1..size' |-> data'[Cell(k - 1)']]
               /\ Items' \in Seq(Value)
               /\ Len(Items') = size'
<1>1. RingOK => /\ Items = [k \in 1..size |-> data[Cell(k - 1)]]
                /\ Items \in Seq(Value)
                /\ Len(Items) = size
  BY ItemsAre
<1>2. RingOK' => (/\ Items = [k \in 1..size |-> data[Cell(k - 1)]]
                  /\ Items \in Seq(Value)
                  /\ Len(Items) = size)'
  BY <1>1, PTL
<1> QED
  BY <1>2

(* A push adds its value behind the items, or fails when the ring is full. *)
LEMMA PushIsPush ==
    ASSUME RingInv, NEW value \in Value, queue_push(value)
    PROVE  F!Push(value) \/ F!PushFails
<1>1. CASE queue_full /\ UNCHANGED <<data, front, rear, size>> /\ answer' = <<>>
  <2>1. Len(Items) = QUEUE_CAPACITY
    BY <1>1, ItemsAre DEF RingInv, queue_full
  <2> QED
    BY <1>1, <2>1 DEF F!PushFails, Items
<1>2. CASE ~queue_full
  <2>1. /\ size \in Nat /\ size < Capacity /\ Capacity \in Nat \ {0} /\ front \in Nat /\ front < Capacity
        /\ front' = front /\ size' = size + 1 /\ answer' = <<value>>
        /\ data' = [data EXCEPT ![rear] = value] /\ data \in [Cells -> Value] /\ rear \in Cells
    BY <1>2, CapacityAssumption DEF queue_push, queue_full, RingInv, RingOK, Capacity, Cells
  <2>2. RingOK' /\ RingOK
    BY PushKeepsInv DEF RingInv
  <2>3. /\ Items = [k \in 1..size |-> data[Cell(k - 1)]] /\ Items \in Seq(Value) /\ Len(Items) = size
        /\ Items' = [k \in 1..(size + 1) |-> data'[Cell(k - 1)]]
        /\ Items' \in Seq(Value) /\ Len(Items') = size + 1
    BY <2>1, <2>2, ItemsAre, ItemsAreNext DEF Cell
  <2>4. \A k \in 1..size : Items'[k] = Items[k]
    <3> SUFFICES ASSUME NEW k \in 1..size PROVE Items'[k] = Items[k]
      OBVIOUS
    <3>1. Cell(k - 1) # rear /\ Cell(k - 1) \in Cells
      BY <2>1 DEF Cell, RingInv, RearIsAfterItems, Cells, Capacity
    <3> QED
      BY <2>1, <2>3, <3>1
  <2>5. Items'[size + 1] = value
    <3>1. Cell(size) = rear
      BY DEF Cell, RingInv, RearIsAfterItems
    <3> QED
      BY <2>1, <2>3, <3>1
  <2>6. Items' = Append(Items, value)
    <3> DEFINE longer == Append(Items, value)
    <3>0. Items \in Seq(Value) /\ Len(Items) = size
      BY <2>3
    <3>1. longer \in Seq(Value) /\ Len(longer) = size + 1
          /\ \A k \in 1..size : longer[k] = Items[k]
          /\ longer[size + 1] = value
      <4>1. Append(Items, value) \in Seq(Value) /\ Len(Append(Items, value)) = Len(Items) + 1
            /\ \A k \in 1..Len(Items) : Append(Items, value)[k] = Items[k]
            /\ Append(Items, value)[Len(Items) + 1] = value
        BY <3>0
      <4> QED
        BY <3>0, <4>1
    <3>2. \A k \in 1..(size + 1) : Items'[k] = longer[k]
      BY <2>1, <2>4, <2>5, <3>1
    <3> QED
      BY <2>3, <3>1, <3>2, SeqEqual
  <2> QED
    BY <2>1, <2>3, <2>6 DEF F!Push, Capacity
<1> QED
  BY <1>1, <1>2 DEF queue_push

(* A pop takes the first item, or fails when there is none. *)
LEMMA PopIsPop ==
    ASSUME RingInv, queue_pop
    PROVE  F!Pop \/ F!PopFails
<1>1. CASE queue_empty /\ UNCHANGED <<data, front, rear, size>> /\ answer' = <<>>
  <2>1. Items = <<>>
    BY <1>1, ItemsAre DEF RingInv, queue_empty
  <2> QED
    BY <1>1, <2>1 DEF F!PopFails, Items
<1>2. CASE ~queue_empty
  <2>1. /\ size \in Nat /\ 0 < size /\ size <= Capacity /\ Capacity \in Nat \ {0} /\ front \in Nat /\ front < Capacity
        /\ front' = After(front) /\ size' = size - 1 /\ answer' = <<data[front]>> /\ data' = data
    BY <1>2, CapacityAssumption, AfterIsNext DEF queue_pop, queue_empty, RingInv, RingOK, Capacity, Cells
  <2>2. RingOK' /\ RingOK
    BY PopKeepsInv DEF RingInv
  <2>3. /\ Items = [k \in 1..size |-> data[Cell(k - 1)]] /\ Items \in Seq(Value) /\ Len(Items) = size
        /\ Items' = [k \in 1..(size - 1) |-> data[Cell(k - 1)']]
        /\ Items' \in Seq(Value) /\ Len(Items') = size - 1
    BY <2>1, <2>2, ItemsAre, ItemsAreNext
  <2>4. \A k \in 1..(size - 1) : Items'[k] = Items[k + 1]
    <3> SUFFICES ASSUME NEW k \in 1..(size - 1) PROVE Items'[k] = Items[k + 1]
      OBVIOUS
    <3>1. Cell(k - 1)' = Cell(k)
      BY <2>1 DEF Cell, After, Capacity
    <3>2. Items'[k] = data[Cell(k)] /\ Items[k + 1] = data[Cell(k)]
      BY <2>1, <2>3, <3>1
    <3> QED
      BY <3>2
  <2>5. Items' = Tail(Items) /\ Items # <<>>
    <3>0. Items \in Seq(Value) /\ Len(Items) = size
      BY <2>3
    <3>1. Items # <<>>
      BY <2>1, <3>0
    <3>2. Tail(Items) \in Seq(Value) /\ Len(Tail(Items)) = size - 1
          /\ \A k \in 1..(size - 1) : Tail(Items)[k] = Items[k + 1]
      BY <3>0, <3>1, HeadTailProperties
    <3>3. Items' \in Seq(Value) /\ Len(Items') = size - 1
      BY <2>3
    <3> QED
      BY <2>4, <3>1, <3>2, <3>3, SeqEqual
  <2>6. Head(Items) = data[front]
    <3>1. Cell(0) = front
      BY <2>1 DEF Cell
    <3> QED
      BY <2>1, <2>3, <3>1
  <2> QED
    BY <2>1, <2>5, <2>6 DEF F!Pop
<1> QED
  BY <1>1, <1>2 DEF queue_pop

(* The ring is a queue of its capacity, wherever it starts and however     *)
(* often it has gone round (queue_push, queue_pop).                        *)
THEOREM RingIsFifo == RingSpec => CircularIsFifo
<1>1. queue_init => F!Init
  <2> SUFFICES ASSUME queue_init PROVE F!Init
    OBVIOUS
  <2>1. Items = <<>>
    BY RingInitInv, ItemsAre DEF queue_init, RingInv
  <2> QED
    BY <2>1 DEF queue_init, F!Init
<1>2. RingInv /\ [RingNext]_ringVars => [F!Next]_<<Items, answer>>
  <2>1. ASSUME UNCHANGED ringVars PROVE UNCHANGED <<Items, answer>>
    BY <2>1 DEF ringVars, Items
  <2> QED
    BY <2>1, PushIsPush, PopIsPop DEF RingNext, F!Next
<1> QED
  BY <1>1, <1>2, RingInitInv, RingStepKeepsInv, PTL DEF RingSpec, CircularIsFifo, F!Spec

-----------------------------------------------------------------------------
(* One machine of MCData at a time *)

LEMMA DataStepIs ==
    ASSUME [DataNext]_<<which, vars, topicVars, ringVars, stackQueueVars, minVars, frameVars>>
    PROVE  /\ Stk!MinNext \/ UNCHANGED minVars
           /\ Stacks!Next \/ UNCHANGED stackQueueVars
<1>1. CASE DataNext
  BY <1>1 DEF DataNext
<1>2. CASE UNCHANGED <<which, vars, topicVars, ringVars, stackQueueVars, minVars, frameVars>>
  BY <1>2
<1> QED
  BY <1>1, <1>2

-----------------------------------------------------------------------------
(* stack_simple_min_stack *)

(* Beside every value stands the least of those up to it.                  *)
LeastOf(values, least, k) ==
    /\ \E j \in 1..k : values[j] = least
    /\ \A j \in 1..k : least <= values[j]

MinInv ==
    /\ stack \in Seq(Int) /\ min_data \in Seq(Int)
    /\ Len(min_data) = Len(stack)
    /\ \A k \in 1..Len(stack) : LeastOf(stack, min_data[k], k)

LEMMA MinPushKeeps ==
    ASSUME MinInv, NEW value \in Elements, Stk!min_stack_push(value)
    PROVE  MinInv'
<1> DEFINE n == Len(stack)
           least == IF Stk!IsLeast(value) THEN value ELSE min_data[n]
<1>1. value \in Int /\ stack \in Seq(Int) /\ min_data \in Seq(Int) /\ n \in Nat /\ Len(min_data) = n
  BY DataAssumption, LenProperties DEF MinInv
<1>2. stack' = Append(stack, value) /\ min_data' = Append(min_data, least)
  BY DEF Stk!min_stack_push, Stk!top
<1>3. n # 0 => n \in 1..n /\ LeastOf(stack, min_data[n], n) /\ min_data[n] \in Int
  BY <1>1, ElementOfSeq DEF MinInv
<1>4. Stk!IsLeast(value) <=> n = 0 \/ value < min_data[n]
  BY DEF Stk!IsLeast, Stk!top
<1>5. least \in Int
  BY <1>1, <1>3, <1>4
<1>6. /\ least = value \/ (n # 0 /\ least = min_data[n])
      /\ least <= value
      /\ n # 0 => least <= min_data[n]
  BY <1>1, <1>3, <1>4
<1> HIDE DEF least
<1>7. /\ stack' \in Seq(Int) /\ min_data' \in Seq(Int)
      /\ Len(stack') = n + 1 /\ Len(min_data') = n + 1
      /\ \A k \in 1..n : stack'[k] = stack[k] /\ min_data'[k] = min_data[k]
      /\ stack'[n + 1] = value /\ min_data'[n + 1] = least
  BY <1>1, <1>2, <1>5, AppendProperties
<1>8. ASSUME NEW k \in 1..n PROVE LeastOf(stack', min_data'[k], k)
  <2>1. LeastOf(stack, min_data[k], k) /\ \A j \in 1..k : stack'[j] = stack[j]
    BY <1>1, <1>7 DEF MinInv
  <2> QED
    BY <1>7, <2>1 DEF LeastOf
<1>9. LeastOf(stack', least, n + 1)
  <2>1. \E j \in 1..(n + 1) : stack'[j] = least
    <3>1. CASE least = value
      <4>1. n + 1 \in 1..(n + 1) /\ stack'[n + 1] = least
        BY <1>1, <1>7, <3>1
      <4> QED
        BY <4>1
    <3>2. CASE n # 0 /\ least = min_data[n]
      BY <1>1, <1>3, <1>7, <3>2 DEF LeastOf
    <3> QED
      BY <1>6, <3>1, <3>2
  <2>2. ASSUME NEW j \in 1..n PROVE least <= stack'[j]
    <3>1. min_data[n] <= stack[j] /\ least <= min_data[n] /\ min_data[n] \in Int /\ n # 0
      BY <1>1, <1>3, <1>6 DEF LeastOf
    <3>2. stack[j] \in Int /\ stack'[j] = stack[j]
      BY <1>1, <1>7, ElementOfSeq
    <3> QED
      BY <1>5, <3>1, <3>2
  <2>3. least <= stack'[n + 1]
    BY <1>6, <1>7
  <2> QED
    BY <1>1, <2>1, <2>2, <2>3 DEF LeastOf
<1>10. \A k \in 1..(n + 1) : k \in 1..n \/ k = n + 1
  BY <1>1
<1> QED
  BY <1>7, <1>8, <1>9, <1>10 DEF MinInv

LEMMA MinPopKeeps ==
    ASSUME MinInv, Stk!min_stack_pop
    PROVE  MinInv'
<1> DEFINE n == Len(stack)
<1>1. stack \in Seq(Int) /\ min_data \in Seq(Int) /\ n \in Nat /\ Len(min_data) = n
  BY LenProperties DEF MinInv
<1>2. CASE n > 0
  <2>1. stack' = SubSeq(stack, 1, n - 1) /\ min_data' = SubSeq(min_data, 1, n - 1)
    BY <1>2 DEF Stk!min_stack_pop, Stk!top
  <2>2. n - 1 \in Nat /\ \A k \in 1..(n - 1) : k \in 1..n
    BY <1>1, <1>2
  <2>3. /\ stack' \in Seq(Int) /\ Len(stack') = n - 1
        /\ \A k \in 1..(n - 1) : stack'[k] = stack[k]
    BY <1>1, <2>1, <2>2, SubSeqProperties, ElementOfSeq
  <2>4. /\ min_data' \in Seq(Int) /\ Len(min_data') = n - 1
        /\ \A k \in 1..(n - 1) : min_data'[k] = min_data[k]
    BY <1>1, <2>1, <2>2, SubSeqProperties, ElementOfSeq
  <2>5. ASSUME NEW k \in 1..(n - 1) PROVE LeastOf(stack', min_data'[k], k)
    <3>1. LeastOf(stack, min_data[k], k)
      BY <2>2 DEF MinInv
    <3>2. \A j \in 1..k : j \in 1..(n - 1)
      BY <1>1
    <3>3. \A j \in 1..k : stack'[j] = stack[j]
      BY <2>3, <3>2
    <3> QED
      BY <2>4, <3>1, <3>3 DEF LeastOf
  <2> QED
    BY <2>3, <2>4, <2>5 DEF MinInv
<1>3. CASE ~(n > 0)
  BY <1>3 DEF Stk!min_stack_pop, Stk!top, Stk!minVars, MinInv
<1> QED
  BY <1>2, <1>3

(* min_stack_get_min is the least value of the stack, for every size of it *)
(* and whatever has been pushed and popped.                                *)
THEOREM MinIsLeast == DataSpec => []MinIsMinimum
<1>1. DataInit => MinInv
  <2> SUFFICES ASSUME DataInit PROVE MinInv
    OBVIOUS
  <2>1. stack = <<>> /\ min_data = <<>>
    BY DEF DataInit, Stk!min_stack_init
  <2> QED
    BY <2>1 DEF MinInv
<1>2. MinInv /\ [DataNext]_<<which, vars, topicVars, ringVars, stackQueueVars, minVars, frameVars>> => MinInv'
  <2> SUFFICES ASSUME MinInv,
                      [DataNext]_<<which, vars, topicVars, ringVars, stackQueueVars, minVars, frameVars>>
               PROVE  MinInv'
    OBVIOUS
  <2>1. CASE Stk!MinNext
    BY <2>1, MinPushKeeps, MinPopKeeps DEF Stk!MinNext
  <2>2. CASE UNCHANGED minVars
    BY <2>2 DEF minVars, MinInv
  <2> QED
    BY <2>1, <2>2, DataStepIs
<1>3. MinInv => MinIsMinimum
  <2>1. Len(stack) \in Nat => (Len(stack) > 0 => Len(stack) \in 1..Len(stack))
    OBVIOUS
  <2> QED
    BY <2>1, LenProperties DEF MinInv, LeastOf, MinIsMinimum, Stk!MinIsMinimum, Stk!top
<1> QED
  BY <1>1, <1>2, <1>3, PTL DEF DataSpec

-----------------------------------------------------------------------------
(* queue_simple_queue_using_stacks *)

LEMMA ReversedIs ==
    ASSUME NEW S, NEW s \in Seq(S)
    PROVE  /\ Stacks!Reversed(s) \in Seq(S)
           /\ Len(Stacks!Reversed(s)) = Len(s) /\ Len(s) \in Nat
           /\ \A j \in 1..Len(s) : Stacks!Reversed(s)[j] = s[Len(s) + 1 - j]
<1> DEFINE n == Len(s)
           r == [x \in 1..n |-> s[n + 1 - x]]
<1>1. n \in Nat
  BY LenProperties
<1>2. \A x \in 1..n : s[n + 1 - x] \in S
  <2> SUFFICES ASSUME NEW x \in 1..n PROVE s[n + 1 - x] \in S
    OBVIOUS
  <2>1. n + 1 - x \in 1..n
    BY <1>1
  <2> QED
    BY <2>1, ElementOfSeq
<1>3. Stacks!Reversed(s) = r
  BY DEF Stacks!Reversed
<1>4. r \in Seq(S) /\ Len(r) = n /\ \A x \in 1..n : r[x] = s[n + 1 - x]
  <2> HIDE DEF n
  <2>1. r \in [1..n -> S]
    BY <1>2
  <2> QED
    BY <1>1, <2>1
<1> QED
  BY <1>1, <1>3, <1>4

LEMMA ConcatIs ==
    ASSUME NEW S, NEW s \in Seq(S), NEW t \in Seq(S)
    PROVE  /\ s \o t \in Seq(S)
           /\ Len(s) \in Nat /\ Len(t) \in Nat
           /\ Len(s \o t) = Len(s) + Len(t)
           /\ \A j \in 1..Len(s) : (s \o t)[j] = s[j]
           /\ \A j \in 1..(Len(s) + Len(t)) : j > Len(s) => (s \o t)[j] = t[j - Len(s)]
<1>1. /\ s \o t \in Seq(S) /\ Len(s \o t) = Len(s) + Len(t)
      /\ \A j \in 1..(Len(s) + Len(t)) : (s \o t)[j] = IF j <= Len(s) THEN s[j] ELSE t[j - Len(s)]
  BY ConcatProperties
<1>2. Len(s) \in Nat /\ Len(t) \in Nat
  BY LenProperties
<1> QED
  BY <1>1, <1>2

LEMMA PoppedIs ==
    ASSUME NEW S, NEW s \in Seq(S), s # <<>>
    PROVE  /\ Len(s) \in Nat \ {0}
           /\ Stacks!stack_pop(s) \in Seq(S)
           /\ Len(Stacks!stack_pop(s)) = Len(s) - 1
           /\ \A j \in 1..(Len(s) - 1) : Stacks!stack_pop(s)[j] = s[j]
           /\ Stacks!Top(s) = s[Len(s)] /\ s[Len(s)] \in S
<1>1. Len(s) \in Nat \ {0}
  BY EmptySeq, LenProperties
<1>2. \A j \in 1..Len(s) : s[j] \in S
  BY ElementOfSeq
<1>3. Len(s) - 1 \in Nat /\ \A j \in 1..(Len(s) - 1) : j \in 1..Len(s)
  BY <1>1
<1>4. /\ SubSeq(s, 1, Len(s) - 1) \in Seq(S)
      /\ Len(SubSeq(s, 1, Len(s) - 1)) = Len(s) - 1
      /\ \A j \in 1..(Len(s) - 1) : SubSeq(s, 1, Len(s) - 1)[j] = s[j]
  <2> DEFINE k == Len(s) - 1
  <2>1. k \in Nat /\ \A j \in 1..k : s[j] \in S
    BY <1>2, <1>3
  <2> HIDE DEF k
  <2>2. SubSeq(s, 1, k) \in Seq(S) /\ Len(SubSeq(s, 1, k)) = k /\ \A j \in 1..k : SubSeq(s, 1, k)[j] = s[j]
    BY <2>1, SubSeqProperties
  <2> QED
    BY <2>2 DEF k
<1> QED
  BY <1>1, <1>2, <1>4 DEF Stacks!stack_pop, Stacks!Top

(* A value that moves from one stack to the other keeps its place.         *)
LEMMA MovedKeepsItems ==
    ASSUME NEW S, NEW s \in Seq(S), NEW t \in Seq(S), s # <<>>
    PROVE  /\ Stacks!stack_pop(s) \o Stacks!Reversed(Append(t, Stacks!Top(s))) = s \o Stacks!Reversed(t)
           /\ Append(t, Stacks!Top(s)) \in Seq(S) /\ Len(Append(t, Stacks!Top(s))) = Len(t) + 1
<1> DEFINE n == Len(s)
           m == Len(t)
           top == Stacks!Top(s)
           less == Stacks!stack_pop(s)
           more == Append(t, top)
           old == s \o Stacks!Reversed(t)
           new == less \o Stacks!Reversed(more)
<1>1. /\ n \in Nat \ {0} /\ less \in Seq(S) /\ Len(less) = n - 1 /\ top = s[n] /\ top \in S
      /\ \A j \in 1..(n - 1) : less[j] = s[j]
  BY PoppedIs
<1> HIDE DEF top, less
<1>2. /\ more \in Seq(S) /\ m \in Nat /\ Len(more) = m + 1
      /\ \A j \in 1..m : more[j] = t[j]
      /\ more[m + 1] = top
  BY <1>1, AppendProperties, LenProperties
<1> HIDE DEF more
<1>3. /\ Stacks!Reversed(t) \in Seq(S) /\ Len(Stacks!Reversed(t)) = m
      /\ \A j \in 1..m : Stacks!Reversed(t)[j] = t[m + 1 - j]
  BY ReversedIs
<1>4. /\ Stacks!Reversed(more) \in Seq(S) /\ Len(Stacks!Reversed(more)) = m + 1
      /\ \A j \in 1..(m + 1) : Stacks!Reversed(more)[j] = more[(m + 1) + 1 - j]
  BY <1>2, ReversedIs
<1>5. /\ old \in Seq(S) /\ Len(old) = n + m
      /\ \A j \in 1..n : old[j] = s[j]
      /\ \A j \in 1..(n + m) : j > n => old[j] = Stacks!Reversed(t)[j - n]
  <2> DEFINE r == Stacks!Reversed(t)
  <2>1. r \in Seq(S) /\ Len(r) = m
    BY <1>3
  <2> HIDE DEF r
  <2>2. /\ s \o r \in Seq(S) /\ Len(s \o r) = Len(s) + Len(r)
        /\ \A j \in 1..Len(s) : (s \o r)[j] = s[j]
        /\ \A j \in 1..(Len(s) + Len(r)) : j > Len(s) => (s \o r)[j] = r[j - Len(s)]
    BY <2>1, ConcatIs
  <2> QED
    BY <2>1, <2>2 DEF r
<1>6. /\ new \in Seq(S) /\ Len(new) = (n - 1) + (m + 1)
      /\ \A j \in 1..(n - 1) : new[j] = less[j]
      /\ \A j \in 1..((n - 1) + (m + 1)) : j > n - 1 => new[j] = Stacks!Reversed(more)[j - (n - 1)]
  <2> DEFINE r == Stacks!Reversed(more)
  <2>1. r \in Seq(S) /\ Len(r) = m + 1 /\ less \in Seq(S) /\ Len(less) = n - 1
    BY <1>1, <1>4
  <2> HIDE DEF r
  <2>2. /\ less \o r \in Seq(S) /\ Len(less \o r) = Len(less) + Len(r)
        /\ \A j \in 1..Len(less) : (less \o r)[j] = less[j]
        /\ \A j \in 1..(Len(less) + Len(r)) : j > Len(less) => (less \o r)[j] = r[j - Len(less)]
    BY <2>1, ConcatIs
  <2> QED
    BY <2>1, <2>2 DEF r
<1>7. ASSUME NEW j \in 1..(n + m) PROVE new[j] = old[j]
  <2> HIDE DEF new, old
  <2>1. CASE j < n
    <3>1. j \in 1..(n - 1) /\ j \in 1..n
      BY <1>1, <1>2, <2>1
    <3>2. new[j] = less[j] /\ less[j] = s[j] /\ old[j] = s[j]
      BY <1>1, <1>5, <1>6, <3>1
    <3> QED
      BY <3>2
  <2>2. CASE j = n
    <3>1. new[n] = Stacks!Reversed(more)[1]
      BY <1>1, <1>2, <1>6
    <3>2. Stacks!Reversed(more)[1] = more[m + 1]
      BY <1>2, <1>4
    <3>3. old[n] = s[n]
      BY <1>1, <1>5
    <3> QED
      BY <1>1, <1>2, <2>2, <3>1, <3>2, <3>3
  <2>3. CASE j > n
    <3>1. j - n \in 1..m /\ j - (n - 1) \in 1..(m + 1) /\ j \in 1..((n - 1) + (m + 1)) /\ j > n - 1
          /\ (m + 1) + 1 - (j - (n - 1)) = m + 1 - (j - n) /\ m + 1 - (j - n) \in 1..m
      BY <1>1, <1>2, <2>3
    <3>2. new[j] = more[m + 1 - (j - n)]
      BY <1>4, <1>6, <3>1
    <3>3. old[j] = t[m + 1 - (j - n)]
      BY <1>3, <1>5, <2>3, <3>1
    <3> QED
      BY <1>2, <3>1, <3>2, <3>3
  <2> QED
    BY <1>1, <1>2, <2>1, <2>2, <2>3
<1>8. Len(new) = n + m
  BY <1>1, <1>2, <1>6
<1>9. new = old
  BY <1>5, <1>6, <1>7, <1>8, SeqEqual
<1> QED
  BY <1>2, <1>9 DEF more, less, top

(* A value that leaves the stack out is the first.                         *)
LEMMA ReturnedIsFirst ==
    ASSUME NEW S, NEW s \in Seq(S), NEW t \in Seq(S), s # <<>>
    PROVE  /\ Stacks!Reversed(s) \o t # <<>>
           /\ Stacks!Reversed(Stacks!stack_pop(s)) \o t = Tail(Stacks!Reversed(s) \o t)
           /\ Stacks!Top(s) = Head(Stacks!Reversed(s) \o t)
<1> DEFINE n == Len(s)
           m == Len(t)
           less == Stacks!stack_pop(s)
           old == Stacks!Reversed(s) \o t
           new == Stacks!Reversed(less) \o t
<1>1. /\ n \in Nat \ {0} /\ less \in Seq(S) /\ Len(less) = n - 1 /\ Stacks!Top(s) = s[n]
      /\ \A j \in 1..(n - 1) : less[j] = s[j]
  BY PoppedIs
<1> HIDE DEF less
<1>2. /\ Stacks!Reversed(s) \in Seq(S) /\ Len(Stacks!Reversed(s)) = n
      /\ \A j \in 1..n : Stacks!Reversed(s)[j] = s[n + 1 - j]
  BY ReversedIs
<1>3. /\ Stacks!Reversed(less) \in Seq(S) /\ Len(Stacks!Reversed(less)) = n - 1
      /\ \A j \in 1..(n - 1) : Stacks!Reversed(less)[j] = less[(n - 1) + 1 - j]
  <2>1. less \in Seq(S) /\ Len(less) = n - 1
    BY <1>1
  <2>2. /\ Stacks!Reversed(less) \in Seq(S) /\ Len(Stacks!Reversed(less)) = Len(less)
        /\ \A j \in 1..Len(less) : Stacks!Reversed(less)[j] = less[Len(less) + 1 - j]
    BY <2>1, ReversedIs
  <2> QED
    BY <2>1, <2>2
<1>4. /\ old \in Seq(S) /\ m \in Nat /\ Len(old) = n + m
      /\ \A j \in 1..n : old[j] = Stacks!Reversed(s)[j]
      /\ \A j \in 1..(n + m) : j > n => old[j] = t[j - n]
  <2> DEFINE r == Stacks!Reversed(s)
  <2>1. r \in Seq(S) /\ Len(r) = n
    BY <1>2
  <2> HIDE DEF r
  <2>2. /\ r \o t \in Seq(S) /\ Len(t) \in Nat /\ Len(r \o t) = Len(r) + Len(t)
        /\ \A j \in 1..Len(r) : (r \o t)[j] = r[j]
        /\ \A j \in 1..(Len(r) + Len(t)) : j > Len(r) => (r \o t)[j] = t[j - Len(r)]
    BY <2>1, ConcatIs
  <2> QED
    BY <2>1, <2>2 DEF r
<1>5. /\ new \in Seq(S) /\ Len(new) = (n - 1) + m
      /\ \A j \in 1..(n - 1) : new[j] = Stacks!Reversed(less)[j]
      /\ \A j \in 1..((n - 1) + m) : j > n - 1 => new[j] = t[j - (n - 1)]
  <2> DEFINE r == Stacks!Reversed(less)
  <2>1. r \in Seq(S) /\ Len(r) = n - 1
    BY <1>3
  <2> HIDE DEF r
  <2>2. /\ r \o t \in Seq(S) /\ Len(r \o t) = Len(r) + Len(t)
        /\ \A j \in 1..Len(r) : (r \o t)[j] = r[j]
        /\ \A j \in 1..(Len(r) + Len(t)) : j > Len(r) => (r \o t)[j] = t[j - Len(r)]
    BY <2>1, ConcatIs
  <2> QED
    BY <2>1, <2>2 DEF r
<1> HIDE DEF old, new
<1>6. Len(old) # 0 /\ old # <<>> /\ old[1] = s[n]
  <2>1. 1 \in 1..n /\ n + 1 - 1 = n
    BY SMTT(20), <1>1
  <2> QED
    BY <1>1, <1>2, <1>4, <2>1, EmptySeq
<1>7. /\ Head(old) = old[1] /\ Tail(old) \in Seq(S) /\ Len(Tail(old)) = (n - 1) + m
      /\ \A j \in 1..((n - 1) + m) : Tail(old)[j] = old[j + 1]
  <2>1. /\ Head(old) = old[1] /\ Tail(old) \in Seq(S) /\ Len(Tail(old)) = Len(old) - 1
        /\ \A j \in 1..(Len(old) - 1) : Tail(old)[j] = old[j + 1]
    BY <1>4, <1>6, HeadTailProperties
  <2>2. Len(old) - 1 = (n - 1) + m
    BY <1>1, <1>4
  <2> QED
    BY <2>1, <2>2
<1>8. ASSUME NEW j \in 1..((n - 1) + m) PROVE new[j] = old[j + 1]
  <2>1. CASE j <= n - 1
    <3>1. j \in 1..(n - 1) /\ j + 1 \in 1..n /\ n + 1 - (j + 1) = (n - 1) + 1 - j
          /\ (n - 1) + 1 - j \in 1..(n - 1)
      <4> HIDE DEF n, m
      <4>1. n \in Nat /\ m \in Nat /\ j \in 1..((n - 1) + m) /\ j <= n - 1
        BY <1>1, <1>4, <2>1
      <4> QED
        BY <4>1
    <3>2. new[j] = less[(n - 1) + 1 - j]
      BY <1>3, <1>5, <3>1
    <3>3. old[j + 1] = s[(n - 1) + 1 - j]
      BY <1>2, <1>4, <3>1
    <3> QED
      BY <1>1, <3>1, <3>2, <3>3
  <2>2. CASE j > n - 1
    <3>1. j + 1 \in 1..(n + m) /\ j + 1 > n /\ (j + 1) - n = j - (n - 1)
      BY <1>1, <1>4, <2>2
    <3> QED
      BY <1>4, <1>5, <2>2, <3>1
  <2> QED
    BY <1>1, <1>4, <2>1, <2>2
<1>9. new = Tail(old)
  BY <1>5, <1>7, <1>8, SeqEqual
<1> QED
  BY <1>1, <1>6, <1>7, <1>9 DEF old, new, less

(* While values are moved, both stacks together hold what in held.         *)
TwoStacksInv ==
    /\ in \in Seq(Value) /\ out \in Seq(Value)
    /\ moving \in BOOLEAN
    /\ Len(in) <= MAX_SIZE /\ Len(out) <= MAX_SIZE
    /\ moving => Len(in) + Len(out) <= MAX_SIZE /\ ~(in = <<>> /\ out = <<>>)

LEMMA TwoStacksPush ==
    ASSUME TwoStacksInv, NEW value \in Value, Stacks!queue_push(value)
    PROVE  TwoStacksInv' /\ Stacks!F!Push(value)
<1> DEFINE r == Stacks!Reversed(out)
<1>1. /\ ~moving /\ Len(in) < MAX_SIZE /\ in' = Append(in, value) /\ popped' = <<value>>
      /\ UNCHANGED <<out, moving>>
  BY DEF Stacks!queue_push, Stacks!stack_push
<1>2. /\ in \in Seq(Value) /\ out \in Seq(Value) /\ Len(in) \in Nat /\ Len(out) \in Nat
      /\ Len(out) <= MAX_SIZE /\ MAX_SIZE \in Nat
  BY LenProperties, DataAssumption DEF TwoStacksInv
<1>3. in' \in Seq(Value) /\ Len(in') = Len(in) + 1
  BY <1>1, <1>2, AppendProperties
<1>4. TwoStacksInv'
  BY <1>1, <1>2, <1>3 DEF TwoStacksInv
<1>5. r \in Seq(Value) /\ Len(r) = Len(out)
  BY <1>2, ReversedIs
<1>6. Stacks!Items = r \o in /\ Stacks!Items' = r \o Append(in, value)
  BY <1>1 DEF Stacks!Items
<1> HIDE DEF r
<1>7. r \o Append(in, value) = Append(r \o in, value)
  <2>1. <<value>> \in Seq(Value) /\ r \o in \in Seq(Value)
    BY <1>2, <1>5, ConcatProperties
  <2>2. Append(in, value) = in \o <<value>>
    BY <1>2, AppendIsConcat
  <2>3. Append(r \o in, value) = (r \o in) \o <<value>>
    BY <2>1, AppendIsConcat
  <2>4. (r \o in) \o <<value>> = r \o (in \o <<value>>)
    BY <1>2, <1>5, <2>1, ConcatAssociative
  <2> QED
    BY <2>2, <2>3, <2>4
<1>8. Len(Stacks!Items) = Len(out) + Len(in)
  <2>1. Len(r \o in) = Len(r) + Len(in)
    BY <1>2, <1>5, ConcatIs
  <2> QED
    BY <1>5, <1>6, <2>1
<1>9. Len(Stacks!Items) < 2 * MAX_SIZE
  BY <1>1, <1>2, <1>8
<1>10. Stacks!F!Push(value)
  BY <1>1, <1>6, <1>7, <1>9 DEF Stacks!F!Push
<1> QED
  BY <1>4, <1>10

(* The return of queue_pop: from out, when nothing has to be moved.        *)
LEMMA TwoStacksReturn ==
    ASSUME TwoStacksInv, out # <<>>, Stacks!Return, moving' = FALSE, moving => in = <<>>
    PROVE  TwoStacksInv' /\ Stacks!F!Pop
<1>1. out' = Stacks!stack_pop(out) /\ popped' = <<Stacks!Top(out)>> /\ in' = in
  BY DEF Stacks!Return
<1>2. in \in Seq(Value) /\ out \in Seq(Value)
  BY DEF TwoStacksInv
<1>3. out' \in Seq(Value) /\ Len(out') = Len(out) - 1 /\ Len(out) \in Nat
  BY <1>1, <1>2, PoppedIs
<1>4. TwoStacksInv'
  <2>1. Len(out') <= MAX_SIZE /\ Len(in) <= MAX_SIZE
    BY <1>3, DataAssumption DEF TwoStacksInv
  <2>2. in' \in Seq(Value) /\ Len(in') <= MAX_SIZE
    BY <1>1, <1>2, <2>1
  <2> QED
    BY <1>3, <2>1, <2>2, Zenon DEF TwoStacksInv
<1>5. Stacks!Items = Stacks!Reversed(out) \o in
  <2>1. Stacks!Reversed(out) \in Seq(Value)
    BY <1>2, ReversedIs
  <2>2. <<>> \o Stacks!Reversed(out) = Stacks!Reversed(out) /\ Stacks!Reversed(out) \o <<>> = Stacks!Reversed(out)
    BY <2>1, ConcatEmptySeq
  <2>3. moving \in BOOLEAN
    BY DEF TwoStacksInv
  <2> QED
    BY <2>2, <2>3 DEF Stacks!Items
<1>6. Stacks!Items' = Stacks!Reversed(out') \o in
  BY <1>1 DEF Stacks!Items, Stacks!Reversed
<1>7. /\ Stacks!Items # <<>> /\ Stacks!Items' = Tail(Stacks!Items)
      /\ popped' = <<Head(Stacks!Items)>>
  BY <1>1, <1>2, <1>5, <1>6, ReturnedIsFirst
<1> QED
  BY <1>4, <1>7 DEF Stacks!F!Pop

(* The loop of queue_pop changes no item: nothing is seen of it.           *)
LEMMA TwoStacksMove ==
    ASSUME TwoStacksInv, moving, in # <<>>,
           in' = Stacks!stack_pop(in), out' = Append(out, Stacks!Top(in)), UNCHANGED <<moving, popped>>
    PROVE  TwoStacksInv' /\ Stacks!Items' = Stacks!Items
<1>1. in \in Seq(Value) /\ out \in Seq(Value) /\ Len(out) \in Nat /\ MAX_SIZE \in Nat
  BY LenProperties, DataAssumption DEF TwoStacksInv
<1>2. /\ in' \in Seq(Value) /\ Len(in') = Len(in) - 1 /\ Len(in) \in Nat \ {0}
  BY <1>1, PoppedIs
<1>3. /\ out' \in Seq(Value) /\ Len(out') = Len(out) + 1
      /\ in' \o Stacks!Reversed(out') = in \o Stacks!Reversed(out)
  BY <1>1, MovedKeepsItems
<1>4. out' # <<>>
  BY <1>1, <1>3, EmptySeq
<1>5. TwoStacksInv'
  BY <1>1, <1>2, <1>3, <1>4 DEF TwoStacksInv
<1>6. Stacks!Items' = in' \o Stacks!Reversed(out') /\ Stacks!Items = in \o Stacks!Reversed(out)
  BY DEF Stacks!Items, Stacks!Reversed
<1> QED
  BY <1>3, <1>5, <1>6

LEMMA TwoStacksStep ==
    ASSUME TwoStacksInv, Stacks!Next
    PROVE  TwoStacksInv' /\ [Stacks!F!Next]_<<Stacks!Items, popped>>
<1>1. ASSUME NEW value \in Value, Stacks!queue_push(value)
      PROVE  TwoStacksInv' /\ Stacks!F!Next
  BY <1>1, TwoStacksPush DEF Stacks!F!Next
<1>2. CASE Stacks!queue_pop /\ out = <<>>
  <2>1. ~moving /\ in # <<>> /\ moving' = TRUE /\ UNCHANGED <<in, out, popped>>
    BY <1>2 DEF Stacks!queue_pop, Stacks!queue_empty, Stacks!MovesFirst, Stacks!stack_empty
  <2>2. in \in Seq(Value) /\ Len(in) \in Nat /\ Len(out) = 0 /\ Len(in) <= MAX_SIZE /\ out \in Seq(Value)
    BY <1>2, LenProperties DEF TwoStacksInv
  <2>3. TwoStacksInv'
    BY <1>2, <2>1, <2>2 DEF TwoStacksInv
  <2>4. Stacks!Reversed(<<>>) = <<>>
    <3>1. <<>> \in Seq(Value) /\ Len(<<>>) = 0
      OBVIOUS
    <3>2. Stacks!Reversed(<<>>) \in Seq(Value) /\ Len(Stacks!Reversed(<<>>)) = 0
      BY <3>1, ReversedIs
    <3> QED
      BY <3>2, EmptySeq
  <2>5. in \o <<>> = in /\ <<>> \o in = in
    BY <2>2, ConcatEmptySeq
  <2>6. Stacks!Items = in /\ Stacks!Items' = in
    BY <1>2, <2>1, <2>4, <2>5 DEF Stacks!Items
  <2> QED
    BY <2>1, <2>3, <2>6
<1>3. CASE Stacks!queue_pop /\ out # <<>>
  <2>1. ~moving /\ Stacks!Return /\ moving' = moving
    BY <1>3 DEF Stacks!queue_pop, Stacks!MovesFirst, Stacks!stack_empty
  <2>2. moving' = FALSE
    BY <2>1 DEF TwoStacksInv
  <2> QED
    BY <1>3, <2>1, <2>2, TwoStacksReturn DEF Stacks!F!Next
<1>4. CASE Stacks!Move /\ in # <<>>
  BY <1>4, TwoStacksMove DEF Stacks!Move, Stacks!stack_empty, Stacks!stack_push
<1>5. CASE Stacks!Move /\ in = <<>>
  <2>1. moving /\ Stacks!Return /\ moving' = FALSE /\ out # <<>>
    BY <1>5 DEF Stacks!Move, Stacks!stack_empty, TwoStacksInv
  <2> QED
    BY <1>5, <2>1, TwoStacksReturn DEF Stacks!F!Next
<1> QED
  BY <1>1, <1>2, <1>3, <1>4, <1>5 DEF Stacks!Next

(* Two stacks are a bounded queue, for every size of them and in the       *)
(* middle of a move too (queue_push, queue_pop).                           *)
THEOREM TwoStacksAreFifo == DataSpec => StacksAreFifo
<1>1. DataInit => TwoStacksInv /\ Stacks!F!Init
  <2> SUFFICES ASSUME DataInit PROVE TwoStacksInv /\ Stacks!F!Init
    OBVIOUS
  <2>1. in = <<>> /\ out = <<>> /\ moving = FALSE /\ popped = <<>>
    BY DEF DataInit
  <2>2. TwoStacksInv
    <3>1. <<>> \in Seq(Value) /\ Len(<<>>) <= MAX_SIZE
      BY DataAssumption
    <3> QED
      BY <2>1, <3>1, Zenon DEF TwoStacksInv
  <2>3. Stacks!Items = <<>>
    <3>1. Stacks!Items = Stacks!Reversed(<<>>) \o <<>>
      BY <2>1 DEF Stacks!Items
    <3>2. <<>> \in Seq(Value) /\ Len(<<>>) = 0
      OBVIOUS
    <3>3. Stacks!Reversed(<<>>) \in Seq(Value) /\ Len(Stacks!Reversed(<<>>)) = 0
      BY <3>2, ReversedIs
    <3> QED
      BY <3>1, <3>3, EmptySeq, ConcatEmptySeq
  <2> QED
    BY <2>1, <2>2, <2>3 DEF Stacks!F!Init
<1>2. TwoStacksInv /\ [DataNext]_<<which, vars, topicVars, ringVars, stackQueueVars, minVars, frameVars>>
          => TwoStacksInv' /\ [Stacks!F!Next]_<<Stacks!Items, popped>>
  <2> SUFFICES ASSUME TwoStacksInv,
                      [DataNext]_<<which, vars, topicVars, ringVars, stackQueueVars, minVars, frameVars>>
               PROVE  TwoStacksInv' /\ [Stacks!F!Next]_<<Stacks!Items, popped>>
    OBVIOUS
  <2>1. CASE Stacks!Next
    BY <2>1, TwoStacksStep
  <2>2. CASE UNCHANGED stackQueueVars
    BY <2>2 DEF stackQueueVars, TwoStacksInv, Stacks!Items, Stacks!Reversed
  <2> QED
    BY <2>1, <2>2, DataStepIs
<1> QED
  BY <1>1, <1>2, PTL DEF DataSpec, StacksAreFifo, Stacks!StacksAreFifo, Stacks!F!Spec

-----------------------------------------------------------------------------
(* queue_medium_bfs_grid *)

(* The call stays the same, and a step is one of its function.             *)
LEMMA StacksStepIs ==
    ASSUME which = "stacks",
           [DataNext]_<<which, vars, topicVars, ringVars, stackQueueVars, minVars, frameVars>>
    PROVE  /\ which' = which
           /\ call' = call
           /\ Stk!Next \/ UNCHANGED <<loc, ret>>
<1>1. CASE Call
  <2>1. Stk!Next /\ which' = which
    BY <1>1 DEF Call, Turn
  <2>2. call' = call
    BY <2>1 DEF Stk!Next, Stk!is_valid_parentheses, Stk!eval_rpn, Stk!daily_temperatures, Stk!max_sliding_window,
                Stk!shortest_path, Stk!Goes, Stk!Returns
  <2> QED
    BY <2>1, <2>2
<1>2. CASE UNCHANGED <<which, vars, topicVars, ringVars, stackQueueVars, minVars, frameVars>>
  BY <1>2 DEF frameVars
<1>3. CASE DataNext /\ ~Call
  BY <1>3 DEF DataNext, Turn
<1> QED
  BY <1>1, <1>2, <1>3

CellsOf == (0..(ROWS - 1)) \X (0..(COLS - 1))

(* Each cell that was visited has been queued, and nothing else.           *)
PathInv ==
    which = "stacks" /\ call.fn = "shortest_path" =>
        /\ call.grid \in [CellsOf -> {0, 1}]
        /\ loc.visited \subseteq CellsOf
        /\ loc.queue \in Seq([at : CellsOf, dist : Nat])
        /\ Len(loc.queue) = Cardinality(loc.visited)
        /\ loc.front \in 0..Len(loc.queue)
        /\ loc.i \in 0..4
        /\ loc.i < 4 => loc.front > 0
        /\ loc = [front |-> loc.front, queue |-> loc.queue, visited |-> loc.visited, i |-> loc.i]

LEMMA CellsAreFinite ==
    /\ IsFiniteSet(CellsOf)
    /\ Cardinality(CellsOf) = ROWS * COLS
<1>1. /\ IsFiniteSet(0..(ROWS - 1)) /\ IsFiniteSet(0..(COLS - 1))
      /\ Cardinality(0..(ROWS - 1)) = ROWS /\ Cardinality(0..(COLS - 1)) = COLS
  <2>1. ROWS \in Nat \ {0} /\ COLS \in Nat \ {0}
    BY DataAssumption
  <2>2. ASSUME NEW n \in Nat \ {0}
        PROVE  IsFiniteSet(0..(n - 1)) /\ Cardinality(0..(n - 1)) = n
    <3>1. 0 \in Int /\ n - 1 \in Int /\ ~(0 > n - 1) /\ n - 1 - 0 + 1 = n
      OBVIOUS
    <3> QED
      BY <3>1, FS_Interval
  <2> QED
    BY <2>1, <2>2
<1> DEFINE S == 0..(ROWS - 1)
           T == 0..(COLS - 1)
<1>2. IsFiniteSet(S) /\ IsFiniteSet(T) /\ Cardinality(S) = ROWS /\ Cardinality(T) = COLS
  BY <1>1
<1> HIDE DEF S, T
<1>3. IsFiniteSet(S \X T) /\ Cardinality(S \X T) = Cardinality(S) * Cardinality(T)
  BY <1>2, FS_Product
<1>4. CellsOf = S \X T
  BY DEF CellsOf, S, T
<1> QED
  BY <1>2, <1>3, <1>4

LEMMA PathStarts == DataInit => PathInv
<1> SUFFICES ASSUME DataInit, which = "stacks", call.fn = "shortest_path"
             PROVE  PathInv
  BY DEF PathInv
<1>1. call \in Stk!Calls /\ loc = Stk!Entry(call)
  BY DEF DataInit, Begins
<1>2. PICK g \in Stk!Grid : call = [fn |-> "shortest_path", grid |-> g]
  BY <1>1 DEF Stk!Calls
<1>3. loc = [front |-> 0, queue |-> <<>>, visited |-> {}, i |-> 4]
  BY <1>1, <1>2 DEF Stk!Entry
<1>4. Cardinality({}) = 0
  BY FS_EmptySet
<1> QED
  BY <1>2, <1>3, <1>4 DEF PathInv, Stk!Grid, CellsOf

LEMMA FreeIsCell ==
    ASSUME PathInv, which = "stacks", call.fn = "shortest_path", NEW cell, Stk!Free(cell)
    PROVE  cell \in CellsOf
BY DEF PathInv, Stk!Free

LEMMA PathGoesOn ==
    ASSUME PathInv, which = "stacks", call.fn = "shortest_path", which' = which, call' = call,
           Stk!shortest_path
    PROVE  PathInv'
<1> DEFINE queue == loc.queue
           Node == [at : CellsOf, dist : Nat]
<1>1. /\ loc.visited \subseteq CellsOf /\ queue \in Seq(Node)
      /\ Len(queue) = Cardinality(loc.visited) /\ Len(queue) \in Nat
      /\ loc.front \in 0..Len(queue) /\ loc.i \in 0..4
      /\ loc.i < 4 => loc.front > 0
      /\ loc = [front |-> loc.front, queue |-> queue, visited |-> loc.visited, i |-> loc.i]
      /\ call.grid \in [CellsOf -> {0, 1}]
  BY LenProperties DEF PathInv
<1>2. CASE UNCHANGED loc
  BY <1>2 DEF PathInv
<1>3. ASSUME Stk!Free(Stk!Start), queue = <<>>,
             loc' = [loc EXCEPT !.queue = <<[at |-> Stk!Start, dist |-> 0]>>, !.visited = {Stk!Start}]
      PROVE  PathInv'
  <2>1. Stk!Start \in CellsOf
    BY <1>3, FreeIsCell
  <2>2. Cardinality({Stk!Start}) = 1
    BY FS_Singleton
  <2>3. loc' = [front |-> loc.front, queue |-> <<[at |-> Stk!Start, dist |-> 0]>>, visited |-> {Stk!Start}, i |-> loc.i]
    BY <1>1, <1>3
  <2>4. [at |-> Stk!Start, dist |-> 0] \in Node
    BY <2>1
  <2>5. loc'.queue \in Seq(Node) /\ Len(loc'.queue) = 1
    BY <2>3, <2>4
  <2>6. loc.front = 0
    BY <1>1, <1>3
  <2> QED
    BY <1>1, <2>1, <2>2, <2>3, <2>5, <2>6 DEF PathInv
<1>4. ASSUME loc.front < Len(queue), loc.i = 4, loc' = [loc EXCEPT !.front = @ + 1, !.i = 0]
      PROVE  PathInv'
  <2>1. loc' = [front |-> loc.front + 1, queue |-> queue, visited |-> loc.visited, i |-> 0]
    BY <1>1, <1>4
  <2>2. loc.front + 1 \in 0..Len(queue) /\ loc.front + 1 > 0
    BY <1>1, <1>4
  <2> QED
    BY <1>1, <2>1, <2>2 DEF PathInv
<1>5. ASSUME loc.i < 4, NEW cell, Stk!Free(cell), cell \notin loc.visited,
             loc' = [loc EXCEPT !.queue = Append(@, [at |-> cell, dist |-> queue[loc.front].dist + 1]),
                                !.visited = @ \cup {cell},
                                !.i = @ + 1]
      PROVE  PathInv'
  <2> DEFINE node == [at |-> cell, dist |-> queue[loc.front].dist + 1]
  <2>1. cell \in CellsOf
    BY <1>5, FreeIsCell
  <2>2. queue[loc.front] \in Node
    <3>1. loc.front \in 1..Len(queue)
      BY <1>1, <1>5
    <3> HIDE DEF queue, Node
    <3> QED
      BY <1>1, <3>1, ElementOfSeq
  <2>3. node \in Node
    BY <2>1, <2>2
  <2>4. loc' = [front |-> loc.front, queue |-> Append(queue, node), visited |-> loc.visited \cup {cell}, i |-> loc.i + 1]
    BY <1>1, <1>5
  <2> HIDE DEF node
  <2>5. Append(queue, node) \in Seq(Node) /\ Len(Append(queue, node)) = Len(queue) + 1
    BY <1>1, <2>3, AppendProperties
  <2>6. IsFiniteSet(loc.visited)
    BY <1>1, CellsAreFinite, FS_Subset
  <2>7. Cardinality(loc.visited \cup {cell}) = Cardinality(loc.visited) + 1
    BY <1>5, <2>6, FS_AddElement
  <2>8. loc.front \in 0..(Len(queue) + 1) /\ loc.i + 1 \in 0..4 /\ loc.front > 0
    BY <1>1, <1>5
  <2>9. /\ loc'.front = loc.front /\ loc'.queue = Append(queue, node) /\ loc'.visited = loc.visited \cup {cell}
        /\ loc'.i = loc.i + 1
        /\ loc' = [front |-> loc'.front, queue |-> loc'.queue, visited |-> loc'.visited, i |-> loc'.i]
    BY <2>4
  <2>10. loc'.visited \subseteq CellsOf /\ Len(loc'.queue) = Cardinality(loc'.visited)
    BY <1>1, <2>1, <2>5, <2>7, <2>9
  <2> QED
    BY <1>1, <2>5, <2>8, <2>9, <2>10 DEF PathInv
<1>6. ASSUME loc.i < 4, loc' = [loc EXCEPT !.i = @ + 1]
      PROVE  PathInv'
  <2>1. loc' = [front |-> loc.front, queue |-> queue, visited |-> loc.visited, i |-> loc.i + 1]
    BY <1>1, <1>6
  <2> QED
    BY <1>1, <1>6, <2>1 DEF PathInv
<1> QED
  BY <1>2, <1>3, <1>4, <1>5, <1>6 DEF Stk!shortest_path, Stk!Goes, Stk!Returns

(* Every cell is queued at most once, so that shortest_path never writes   *)
(* beyond queue[MAX_QUEUE], for every grid of every size.                  *)
THEOREM QueueIsLargeEnough == DataSpec => [](which = "stacks" => Stk!QueueFits)
<1>1. PathInv /\ [DataNext]_<<which, vars, topicVars, ringVars, stackQueueVars, minVars, frameVars>> => PathInv'
  <2> SUFFICES ASSUME PathInv,
                      [DataNext]_<<which, vars, topicVars, ringVars, stackQueueVars, minVars, frameVars>>,
                      which' = "stacks", call'.fn = "shortest_path"
               PROVE  PathInv'
    BY DEF PathInv
  <2>1. which = "stacks"
    BY DEF DataNext, Call, Turn
  <2>2. /\ which' = which /\ call' = call
        /\ Stk!Next \/ UNCHANGED <<loc, ret>>
    BY <2>1, StacksStepIs
  <2>3. CASE Stk!shortest_path
    BY <2>1, <2>2, <2>3, PathGoesOn
  <2>4. CASE UNCHANGED <<loc, ret>>
    BY <2>1, <2>2, <2>4 DEF PathInv
  <2> QED
    BY <2>2, <2>3, <2>4 DEF Stk!Next, Stk!Runs, Stk!is_valid_parentheses, Stk!eval_rpn, Stk!daily_temperatures,
                            Stk!max_sliding_window
<1>2. PathInv => (which = "stacks" => Stk!QueueFits)
  <2> SUFFICES ASSUME PathInv, which = "stacks", call.fn = "shortest_path"
               PROVE  Len(loc.queue) <= ROWS * COLS
    BY DEF Stk!QueueFits
  <2>1. loc.visited \subseteq CellsOf /\ Len(loc.queue) = Cardinality(loc.visited)
    BY DEF PathInv
  <2> QED
    BY <2>1, CellsAreFinite, FS_Subset
<1> QED
  BY <1>1, <1>2, PathStarts, PTL DEF DataSpec

-----------------------------------------------------------------------------
(* stack_medium_daily_temperatures: of the days 1..i, those that are on    *)
(* the stack st wait for a warmer one, the others have their answer.       *)

OnStack(st, p) == \E j \in 1..Len(st) : st[j] = p - 1

(* One more at the end of a sequence.                                      *)
LEMMA OneMore ==
    ASSUME NEW S, NEW s \in Seq(S), NEW e \in S, NEW n \in Nat, Len(s) = n
    PROVE  /\ Append(s, e) \in Seq(S) /\ Len(Append(s, e)) = n + 1
           /\ \A j \in 1..n : Append(s, e)[j] = s[j]
           /\ Append(s, e)[n + 1] = e
BY AppendProperties

LEMMA NotEmpty ==
    ASSUME NEW S, NEW s \in Seq(S), NEW n \in Nat, n = Len(s), NEW j \in 1..n
    PROVE  s # <<>> /\ n \in 1..n
<1>1. n # 0
  OBVIOUS
<1> QED
  BY <1>1, EmptySeq

(* No day after p, up to last, is warmer than p.                           *)
NoneWarmer(nums, p, last) == \A q \in (p + 1)..last : nums[q] <= nums[p]

DailyOK(nums, i, st, ans) ==
    /\ nums \in Seq(Int)
    /\ i \in 0..Len(nums)
    /\ st \in Seq(0..(i - 1))
    /\ ans \in Seq(Nat)
    /\ Len(ans) = i

(* The days on the stack are in their order, and none is warmer than one   *)
(* before it.                                                              *)
StackFalls(nums, st) ==
    \A j, k \in 1..Len(st) : j < k => st[j] < st[k] /\ nums[st[k] + 1] <= nums[st[j] + 1]

LEMMA Falls ==
    ASSUME NEW nums, NEW st, StackFalls(nums, st), NEW h \in Nat, h = Len(st), NEW j \in 1..h, NEW k \in 1..h, j < k
    PROVE  st[j] < st[k] /\ nums[st[k] + 1] <= nums[st[j] + 1]
BY DEF StackFalls

AnswerOf(nums, i, st, ans, p) ==
    IF OnStack(st, p)
        THEN ans[p] = 0 /\ NoneWarmer(nums, p, i)
        ELSE /\ ans[p] \in 1..(Len(nums) - p)
             /\ nums[p + ans[p]] > nums[p]
             /\ NoneWarmer(nums, p, p + ans[p] - 1)

Answers(nums, i, st, ans) ==
    /\ DailyOK(nums, i, st, ans)
    /\ StackFalls(nums, st)
    /\ \A p \in 1..i : AnswerOf(nums, i, st, ans, p)

DailyInv ==
    which = "stacks" /\ call.fn = "daily_temperatures" =>
        /\ loc = [i |-> loc.i, stack |-> loc.stack, answer |-> loc.answer]
        /\ Answers(call.nums, loc.i, loc.stack, loc.answer)
        /\ ret # <<>> => loc.i = Len(call.nums) /\ ret = <<loc.answer>>

LEMMA InputsAreSequences ==
    ASSUME NEW nums \in Stk!Inputs(Elements, MaxArray)
    PROVE  nums \in Seq(Int) /\ Len(nums) \in Nat
<1>1. PICK m \in 0..MaxArray : nums \in [1..m -> Elements]
  BY DEF Stk!Inputs
<1>2. m \in Nat /\ nums \in [1..m -> Int]
  <2>1. m \in Nat
    BY DataAssumption
  <2> QED
    BY <1>1, <2>1, DataAssumption
<1> QED
  BY <1>2

LEMMA DailyStarts == DataInit => DailyInv
<1> SUFFICES ASSUME DataInit, which = "stacks", call.fn = "daily_temperatures"
             PROVE  DailyInv
  BY DEF DailyInv
<1>1. call \in Stk!Calls /\ loc = Stk!Entry(call) /\ ret = <<>>
  BY DEF DataInit, Begins
<1>2. PICK nums \in Stk!Inputs(Elements, MaxArray) : call = [fn |-> "daily_temperatures", nums |-> nums]
  BY <1>1 DEF Stk!Calls
<1>3. loc = [i |-> 0, stack |-> <<>>, answer |-> <<>>]
  BY <1>1, <1>2 DEF Stk!Entry
<1>4. call.nums \in Seq(Int) /\ Len(call.nums) \in Nat
  BY <1>2, InputsAreSequences
<1>5. Answers(call.nums, 0, <<>>, <<>>)
  BY <1>4 DEF Answers, DailyOK, StackFalls
<1> QED
  BY <1>1, <1>3, <1>5 DEF DailyInv

(* A day that is warmer than the last one on the stack is its answer.      *)
LEMMA WarmerDay ==
    ASSUME NEW nums, NEW i \in Nat, NEW st, NEW ans, Answers(nums, i, st, ans),
           i < Len(nums), st # <<>>, nums[i + 1] > nums[st[Len(st)] + 1]
    PROVE  Answers(nums, i, SubSeq(st, 1, Len(st) - 1), [ans EXCEPT ![st[Len(st)] + 1] = i - st[Len(st)]])
<1>1. /\ nums \in Seq(Int) /\ i \in 0..Len(nums) /\ i \in Nat /\ Len(nums) \in Nat
      /\ st \in Seq(0..(i - 1)) /\ Len(st) \in Nat
      /\ ans \in Seq(Nat) /\ Len(ans) = i
  BY LenProperties DEF Answers, DailyOK
<1>2. PICK h \in Nat : h = Len(st)
  BY <1>1
<1>3. h \in 1..h /\ h - 1 \in Nat
  BY <1>1, <1>2, EmptySeq
<1>4. \A j \in 1..h : st[j] \in 0..(i - 1)
  BY <1>1, <1>2, ElementOfSeq
<1>5. PICK top \in 0..(i - 1) : top = st[h]
  BY <1>3, <1>4
<1>6. PICK new : new = SubSeq(st, 1, h - 1)
  OBVIOUS
<1>7. /\ new \in Seq(0..(i - 1)) /\ Len(new) = h - 1
      /\ \A j \in 1..(h - 1) : new[j] = st[j] /\ j \in 1..h
  BY <1>3, <1>4, <1>6, SubSeqProperties
<1>8. top \in Nat /\ top + 1 \in 1..i /\ i - top \in Nat /\ i - top \in 1..(Len(nums) - (top + 1))
  <2>1. PICK n \in Nat : n = Len(nums)
    BY <1>1
  <2>2. i < n /\ top \in Int /\ 0 <= top /\ top <= i - 1
    BY <1>5, <2>1
  <2>3. top + 1 <= i /\ 1 <= i - top /\ i - top <= n - (top + 1)
    BY <2>2
  <2> QED
    BY <2>1, <2>2, <2>3
<1>9. PICK more : more = [ans EXCEPT ![top + 1] = i - top]
  OBVIOUS
<1>10. /\ more \in Seq(Nat) /\ Len(more) = i
       /\ \A p \in 1..i : more[p] = IF p = top + 1 THEN i - top ELSE ans[p]
  BY <1>1, <1>8, <1>9, ExceptSeq
<1>11. StackFalls(nums, new)
  BY <1>2, <1>7 DEF Answers, StackFalls
<1>12. ASSUME NEW p \in 1..i
       PROVE  OnStack(new, p) <=> OnStack(st, p) /\ p # top + 1
  <2>1. ASSUME NEW j \in 1..(h - 1), st[j] = p - 1 PROVE OnStack(st, p) /\ p # top + 1
    <3>1. j \in 1..h /\ j < h
      BY <1>3
    <3>2. st[j] < top
      <4>1. StackFalls(nums, st)
        BY DEF Answers
      <4> QED
        BY <1>2, <1>3, <1>5, <3>1, <4>1, Falls
    <3>3. OnStack(st, p)
      BY <1>2, <2>1, <3>1 DEF OnStack
    <3>4. p - 1 < top /\ p \in Int
      BY <2>1, <3>2
    <3> QED
      BY <1>5, <3>3, <3>4
  <2>2. ASSUME OnStack(st, p), p # top + 1 PROVE \E j \in 1..(h - 1) : st[j] = p - 1
    <3>1. PICK j \in 1..h : st[j] = p - 1
      BY <1>2, <2>2 DEF OnStack
    <3>2. j # h
      BY <1>5, <2>2, <3>1
    <3>3. j \in 1..(h - 1)
      BY <1>3, <3>1, <3>2
    <3> QED
      BY <3>1, <3>3
  <2> QED
    BY <1>7, <2>1, <2>2 DEF OnStack
<1>13. ASSUME NEW p \in 1..i PROVE AnswerOf(nums, i, new, more, p)
  <2>0. AnswerOf(nums, i, st, ans, p)
    BY DEF Answers
  <2>1. CASE p = top + 1
    <3>1. OnStack(st, p)
      BY <1>2, <1>3, <1>5, <2>1 DEF OnStack
    <3>2. NoneWarmer(nums, p, i)
      BY <2>0, <3>1 DEF AnswerOf
    <3>3. ~OnStack(new, p) /\ more[p] = i - top
      BY <1>10, <1>12, <2>1
    <3>4. p + (i - top) = i + 1 /\ p + (i - top) - 1 = i
      BY <1>1, <1>8, <2>1
    <3>5. nums[i + 1] > nums[p]
      BY <1>2, <1>5, <2>1
    <3> QED
      BY <1>8, <2>1, <3>2, <3>3, <3>4, <3>5 DEF AnswerOf
  <2>2. CASE p # top + 1
    <3>1. more[p] = ans[p] /\ (OnStack(new, p) <=> OnStack(st, p))
      BY <1>10, <1>12, <2>2
    <3> QED
      BY <2>0, <3>1 DEF AnswerOf
  <2> QED
    BY <2>1, <2>2
<1>14. DailyOK(nums, i, new, more)
  BY <1>1, <1>7, <1>10 DEF DailyOK
<1> QED
  BY <1>2, <1>5, <1>6, <1>9, <1>11, <1>13, <1>14 DEF Answers

(* A day that is no warmer than the last one on the stack is put on it.    *)
LEMMA ColderDay ==
    ASSUME NEW nums, NEW i \in Nat, NEW st, NEW ans, Answers(nums, i, st, ans),
           i < Len(nums), st = <<>> \/ ~(nums[i + 1] > nums[st[Len(st)] + 1])
    PROVE  Answers(nums, i + 1, Append(st, i), Append(ans, 0))
<1>1. /\ nums \in Seq(Int) /\ i \in 0..Len(nums) /\ i \in Nat /\ Len(nums) \in Nat
      /\ st \in Seq(0..(i - 1)) /\ Len(st) \in Nat
      /\ ans \in Seq(Nat) /\ Len(ans) = i
  BY LenProperties DEF Answers, DailyOK
<1>2. PICK h \in Nat : h = Len(st)
  BY <1>1
<1>3. \A j \in 1..h : st[j] \in 0..(i - 1) /\ st[j] + 1 \in 1..Len(nums)
  <2>1. \A j \in 1..h : st[j] \in 0..(i - 1)
    BY <1>1, <1>2, ElementOfSeq
  <2>2. \A x \in 0..(i - 1) : x + 1 \in 1..Len(nums)
    BY <1>1
  <2> QED
    BY <2>1, <2>2
<1>4. \A p \in 1..Len(nums) : nums[p] \in Int
  BY <1>1, ElementOfSeq
<1>5. i + 1 \in 1..Len(nums) /\ (i + 1) - 1 = i
  BY <1>1
<1>6. PICK new : new = Append(st, i)
  OBVIOUS
<1>7. /\ new \in Seq(0..i) /\ Len(new) = h + 1
      /\ \A j \in 1..h : new[j] = st[j]
      /\ new[h + 1] = i
  <2>1. 0..(i - 1) \subseteq 0..i /\ i \in 0..i
    OBVIOUS
  <2>2. st \in Seq(0..i)
    BY <1>1, <2>1, SeqMonotonic
  <2> QED
    BY <1>2, <1>6, <2>1, <2>2, AppendProperties
<1>8. PICK more : more = Append(ans, 0)
  OBVIOUS
<1>9. /\ more \in Seq(Nat) /\ Len(more) = i + 1
      /\ \A p \in 1..i : more[p] = ans[p]
      /\ more[i + 1] = 0
  <2>1. 0 \in Nat
    OBVIOUS
  <2> QED
    BY <1>1, <1>8, <2>1, OneMore
<1>10. DailyOK(nums, i + 1, new, more)
  BY <1>1, <1>5, <1>7, <1>9 DEF DailyOK
<1>11. ASSUME NEW j \in 1..h PROVE nums[i + 1] <= nums[st[j] + 1]
  <2>1. h \in 1..h /\ st # <<>>
    BY <1>1, <1>2, NotEmpty
  <2>2. nums[i + 1] \in Int /\ nums[st[h] + 1] \in Int /\ nums[st[j] + 1] \in Int
    BY <1>3, <1>4, <1>5, <2>1
  <2>3. nums[i + 1] <= nums[st[h] + 1]
    BY <1>2, <2>1, <2>2
  <2>4. j = h \/ nums[st[h] + 1] <= nums[st[j] + 1]
    <3>1. StackFalls(nums, st) /\ (j = h \/ j < h)
      BY DEF Answers
    <3> QED
      BY <1>2, <2>1, <3>1, Falls
  <2> QED
    BY <2>2, <2>3, <2>4
<1>12. StackFalls(nums, new)
  <2> SUFFICES ASSUME NEW j \in 1..(h + 1), NEW k \in 1..(h + 1), j < k
               PROVE  new[j] < new[k] /\ nums[new[k] + 1] <= nums[new[j] + 1]
    BY <1>7 DEF StackFalls
  <2>1. j \in 1..h
    OBVIOUS
  <2>2. CASE k = h + 1
    <3>1. new[j] = st[j] /\ new[k] = i
      BY <1>7, <2>1, <2>2
    <3>2. st[j] < i
      <4>1. st[j] \in 0..(i - 1)
        BY <1>3, <2>1
      <4> QED
        BY <4>1
    <3> QED
      BY <1>11, <2>1, <3>1, <3>2
  <2>3. CASE k # h + 1
    <3>1. k \in 1..h
      BY <2>3
    <3>2. new[j] = st[j] /\ new[k] = st[k]
      BY <1>7, <2>1, <3>1
    <3> QED
      BY <1>2, <2>1, <3>1, <3>2 DEF Answers, StackFalls
  <2> QED
    BY <2>2, <2>3
<1>13. ASSUME NEW p \in 1..(i + 1)
       PROVE  OnStack(new, p) <=> p = i + 1 \/ OnStack(st, p)
  <2>1. \A j \in 1..(h + 1) : j \in 1..h \/ j = h + 1
    OBVIOUS
  <2>2. h + 1 \in 1..(h + 1) /\ \A j \in 1..h : j \in 1..(h + 1)
    OBVIOUS
  <2>3. i = p - 1 <=> p = i + 1
    BY <1>1
  <2> QED
    BY <1>2, <1>7, <2>1, <2>2, <2>3 DEF OnStack
<1>14. ASSUME NEW p \in 1..(i + 1) PROVE AnswerOf(nums, i + 1, new, more, p)
  <2>1. CASE p = i + 1
    <3>1. OnStack(new, p) /\ more[p] = 0
      BY <1>9, <1>13, <2>1
    <3>2. NoneWarmer(nums, p, i + 1)
      BY <2>1 DEF NoneWarmer
    <3> QED
      BY <3>1, <3>2 DEF AnswerOf
  <2>2. CASE p # i + 1
    <3>1. p \in 1..i
      BY <1>1, <2>2
    <3>2. more[p] = ans[p] /\ (OnStack(new, p) <=> OnStack(st, p)) /\ AnswerOf(nums, i, st, ans, p)
      BY <1>9, <1>13, <2>2, <3>1 DEF Answers
    <3>3. CASE OnStack(st, p)
      <4>1. PICK j \in 1..h : st[j] = p - 1
        BY <1>2, <3>3 DEF OnStack
      <4>2. st[j] + 1 = p
        BY <3>1, <4>1
      <4>3. nums[i + 1] <= nums[p]
        BY <1>11, <4>2
      <4>4. ans[p] = 0 /\ NoneWarmer(nums, p, i)
        BY <3>2, <3>3 DEF AnswerOf
      <4>5. \A q \in (p + 1)..(i + 1) : q = i + 1 \/ q \in (p + 1)..i
        BY <3>1
      <4>6. NoneWarmer(nums, p, i + 1)
        BY <4>3, <4>4, <4>5 DEF NoneWarmer
      <4> QED
        BY <3>2, <3>3, <4>4, <4>6 DEF AnswerOf
    <3>4. CASE ~OnStack(st, p)
      BY <3>2, <3>4 DEF AnswerOf
    <3> QED
      BY <3>3, <3>4
  <2> QED
    BY <2>1, <2>2
<1> QED
  BY <1>6, <1>8, <1>10, <1>12, <1>14 DEF Answers

LEMMA DailyStep ==
    ASSUME DailyInv, which = "stacks", call.fn = "daily_temperatures", which' = which, call' = call,
           Stk!daily_temperatures
    PROVE  DailyInv'
<1> DEFINE nums == call.nums
           st == loc.stack
<1>1. /\ ret = <<>>
      /\ loc = [i |-> loc.i, stack |-> st, answer |-> loc.answer]
      /\ Answers(nums, loc.i, st, loc.answer)
  BY DEF DailyInv, Stk!daily_temperatures, Stk!Runs
<1>2. loc.i \in 0..Len(nums) /\ Len(nums) \in Nat
  BY <1>1, LenProperties DEF Answers, DailyOK
<1>3. CASE loc.i = Len(nums)
  <2>1. ret' = <<loc.answer>> /\ loc' = loc
    BY <1>3 DEF Stk!daily_temperatures, Stk!Returns
  <2> QED
    BY <1>1, <1>3, <2>1 DEF DailyInv
<1>4. CASE loc.i # Len(nums) /\ st # <<>> /\ nums[loc.i + 1] > nums[st[Len(st)] + 1]
  <2>1. loc.i < Len(nums)
    BY <1>2, <1>4
  <2>2. /\ loc' = [loc EXCEPT !.stack = SubSeq(@, 1, Len(@) - 1), !.answer[st[Len(st)] + 1] = loc.i - st[Len(st)]]
        /\ ret' = ret
    BY <1>4 DEF Stk!daily_temperatures, Stk!Goes, Stk!Front, Stk!Last
  <2>3. loc' = [i |-> loc.i, stack |-> SubSeq(st, 1, Len(st) - 1),
                answer |-> [loc.answer EXCEPT ![st[Len(st)] + 1] = loc.i - st[Len(st)]]]
    BY <1>1, <2>2
  <2>4. Answers(nums, loc.i, SubSeq(st, 1, Len(st) - 1), [loc.answer EXCEPT ![st[Len(st)] + 1] = loc.i - st[Len(st)]])
    <3>1. loc.i \in Nat
      BY <1>2
    <3> HIDE DEF st, nums
    <3> QED
      BY <1>1, <1>4, <2>1, <3>1, WarmerDay
  <2> QED
    BY <1>1, <2>2, <2>3, <2>4 DEF DailyInv
<1>5. CASE loc.i # Len(nums) /\ ~(st # <<>> /\ nums[loc.i + 1] > nums[st[Len(st)] + 1])
  <2>1. loc.i < Len(nums)
    BY <1>2, <1>5
  <2>2. /\ loc' = [i |-> loc.i + 1, stack |-> Append(st, loc.i), answer |-> Append(loc.answer, 0)]
        /\ ret' = ret
    BY <1>5 DEF Stk!daily_temperatures, Stk!Goes, Stk!Last
  <2>3. Answers(nums, loc.i + 1, Append(st, loc.i), Append(loc.answer, 0))
    BY <1>1, <1>2, <1>5, <2>1, ColderDay
  <2> QED
    BY <1>1, <2>2, <2>3 DEF DailyInv
<1> QED
  BY <1>3, <1>4, <1>5

(* daily_temperatures gives every day the number of days until the next    *)
(* warmer one, 0 if none is, for temperatures of every length.             *)
THEOREM NextWarmerDay ==
    DataSpec => [](which = "stacks" /\ call.fn = "daily_temperatures" /\ ret # <<>> => Stk!IsResult(ret[1]))
<1>1. DailyInv /\ [DataNext]_<<which, vars, topicVars, ringVars, stackQueueVars, minVars, frameVars>> => DailyInv'
  <2> SUFFICES ASSUME DailyInv,
                      [DataNext]_<<which, vars, topicVars, ringVars, stackQueueVars, minVars, frameVars>>,
                      which' = "stacks", call'.fn = "daily_temperatures"
               PROVE  DailyInv'
    BY DEF DailyInv
  <2>1. which = "stacks"
    BY DEF DataNext, Call, Turn
  <2>2. /\ which' = which /\ call' = call
        /\ Stk!Next \/ UNCHANGED <<loc, ret>>
    BY <2>1, StacksStepIs
  <2>3. CASE Stk!daily_temperatures
    BY <2>1, <2>2, <2>3, DailyStep
  <2>4. CASE UNCHANGED <<loc, ret>>
    BY <2>1, <2>2, <2>4 DEF DailyInv
  <2> QED
    BY <2>2, <2>3, <2>4 DEF Stk!Next, Stk!Runs, Stk!is_valid_parentheses, Stk!eval_rpn, Stk!shortest_path,
                            Stk!max_sliding_window
<1>2. DailyInv => (which = "stacks" /\ call.fn = "daily_temperatures" /\ ret # <<>> => Stk!IsResult(ret[1]))
  <2> SUFFICES ASSUME DailyInv, which = "stacks", call.fn = "daily_temperatures", ret # <<>>
               PROVE  Stk!IsResult(ret[1])
    OBVIOUS
  <2>1. PICK nums, n, st, r : nums = call.nums /\ n = Len(nums) /\ st = loc.stack /\ r = loc.answer
    OBVIOUS
  <2>2. ret[1] = r /\ Answers(nums, n, st, r)
    BY <2>1 DEF DailyInv
  <2>3. Len(r) = n /\ n \in Nat /\ nums \in Seq(Int)
    BY <2>1, <2>2, LenProperties DEF Answers, DailyOK
  <2>4. \A q \in 1..n : nums[q] \in Int
    BY <2>1, <2>3, ElementOfSeq
  <2>5. ASSUME NEW p \in 1..n
        PROVE  LET warmer == {d \in 1..(n - p) : nums[p + d] > nums[p]}
               IN  IF warmer = {} THEN r[p] = 0 ELSE r[p] \in warmer /\ \A d \in warmer : r[p] <= d
    <3> DEFINE warmer == {d \in 1..(n - p) : nums[p + d] > nums[p]}
    <3>1. AnswerOf(nums, n, st, r, p)
      BY <2>2 DEF Answers
    <3>2. CASE OnStack(st, p)
      <4>1. r[p] = 0 /\ NoneWarmer(nums, p, n)
        BY <3>1, <3>2 DEF AnswerOf
      <4>2. ASSUME NEW d \in 1..(n - p) PROVE ~(nums[p + d] > nums[p])
        <5>1. p + d \in (p + 1)..n /\ p + d \in 1..n
          BY <2>3
        <5>2. nums[p + d] <= nums[p] /\ nums[p + d] \in Int /\ nums[p] \in Int
          BY <2>4, <4>1, <5>1 DEF NoneWarmer
        <5> QED
          BY <5>2
      <4> QED
        BY <4>1, <4>2
    <3>3. CASE ~OnStack(st, p)
      <4>1. /\ r[p] \in 1..(n - p)
            /\ nums[p + r[p]] > nums[p]
            /\ NoneWarmer(nums, p, p + r[p] - 1)
        BY <2>1, <3>1, <3>3 DEF AnswerOf
      <4>2. ASSUME NEW d \in 1..(n - p), nums[p + d] > nums[p], ~(r[p] <= d) PROVE FALSE
        <5>1. p + d \in (p + 1)..(p + r[p] - 1) /\ p + d \in 1..n
          BY <2>3, <4>1, <4>2
        <5>2. nums[p + d] <= nums[p] /\ nums[p + d] \in Int /\ nums[p] \in Int
          BY <2>4, <4>1, <5>1 DEF NoneWarmer
        <5> QED
          BY <4>2, <5>2
      <4> QED
        BY <4>1, <4>2
    <3> QED
      BY <3>2, <3>3
  <2> QED
    BY <2>1, <2>2, <2>3, <2>5 DEF Stk!IsResult
<1> QED
  BY <1>1, <1>2, DailyStarts, PTL DEF DataSpec

-----------------------------------------------------------------------------
(* queue_medium_sliding_window_max: nums[i + 1] comes next, and the window *)
(* starts behind the first lo elements.                                    *)

(* The indices in the deque are of the window, in their order, and none of *)
(* them has a larger value than one before it.                             *)
Deque(nums, i, lo, dq) ==
    /\ dq \in Seq(0..(i - 1))
    /\ \A j \in 1..Len(dq) : dq[j] >= lo
    /\ StackFalls(nums, dq)

Covers(nums, dq, q) == \E j \in 1..Len(dq) : dq[j] + 1 >= q /\ nums[dq[j] + 1] >= nums[q]

(* Whatever the window holds is no larger than a later one in the deque,   *)
(* or than what comes next, if that is why the deque was shortened.        *)
Covered(nums, i, lo, dq, shortened) ==
    \A q \in 1..i : q > lo => Covers(nums, dq, q) \/ (shortened /\ nums[i + 1] >= nums[q])

IsMaximum(nums, a, b, m) ==
    /\ \E q \in a..b : nums[q] = m
    /\ \A q \in a..b : nums[q] <= m

Maxima(nums, k, i, res) ==
    /\ res \in Seq(Int)
    /\ Len(res) = IF i >= k THEN i - k + 1 ELSE 0
    /\ \A w \in 1..Len(res) : IsMaximum(nums, w, w + k - 1, res[w])

WindowInv ==
    which = "stacks" /\ call.fn = "max_sliding_window" =>
        /\ call.nums \in Seq(Int) /\ call.k \in Nat \ {0}
        /\ loc = [i |-> loc.i, deque |-> loc.deque, left |-> loc.left, result |-> loc.result]
        /\ loc.i \in 0..Len(call.nums)
        /\ Maxima(call.nums, call.k, loc.i, loc.result)
        /\ \/ /\ loc.left = FALSE
              /\ Deque(call.nums, loc.i, loc.i - call.k, loc.deque)
              /\ Covered(call.nums, loc.i, loc.i - call.k, loc.deque, FALSE)
           \/ /\ loc.left = TRUE
              /\ loc.i < Len(call.nums)
              /\ Deque(call.nums, loc.i, loc.i - call.k + 1, loc.deque)
              /\ Covered(call.nums, loc.i, loc.i - call.k + 1, loc.deque, TRUE)
        /\ ret # <<>> => loc.i = Len(call.nums) /\ ret = <<loc.result>>

LEMMA WindowStarts == DataInit => WindowInv
<1> SUFFICES ASSUME DataInit, which = "stacks", call.fn = "max_sliding_window"
             PROVE  WindowInv
  BY DEF WindowInv
<1>1. call \in Stk!Calls /\ loc = Stk!Entry(call) /\ ret = <<>>
  BY DEF DataInit, Begins
<1>2. PICK nums \in Stk!Inputs(Elements, MaxArray), k \in 1..(MaxArray + 1) :
          call = [fn |-> "max_sliding_window", nums |-> nums, k |-> k]
  BY <1>1 DEF Stk!Calls
<1>3. loc = [i |-> 0, deque |-> <<>>, left |-> FALSE, result |-> <<>>]
  BY <1>1, <1>2 DEF Stk!Entry
<1>4. nums \in Seq(Int) /\ Len(nums) \in Nat /\ k \in Nat \ {0}
  BY <1>2, InputsAreSequences, DataAssumption
<1>5. Deque(nums, 0, 0 - k, <<>>) /\ Covered(nums, 0, 0 - k, <<>>, FALSE) /\ Maxima(nums, k, 0, <<>>)
  BY <1>4 DEF Deque, Covered, Maxima, StackFalls
<1>6. /\ call.nums = nums /\ call.k = k
      /\ loc.i = 0 /\ loc.deque = <<>> /\ loc.left = FALSE /\ loc.result = <<>>
      /\ loc = [i |-> loc.i, deque |-> loc.deque, left |-> loc.left, result |-> loc.result]
  BY <1>2, <1>3
<1>7. 0 \in 0..Len(nums)
  BY <1>4
<1> QED
  BY <1>1, <1>4, <1>5, <1>6, <1>7 DEF WindowInv

(* The window goes on: its first index, if it is there, leaves the deque.  *)
LEMMA FirstLeaves ==
    ASSUME NEW nums, NEW i \in Nat, NEW lo \in Int, NEW dq, NEW dq2,
           Deque(nums, i, lo, dq), Covered(nums, i, lo, dq, FALSE),
           dq2 = IF dq # <<>> /\ Head(dq) <= lo THEN Tail(dq) ELSE dq
    PROVE  Deque(nums, i, lo + 1, dq2) /\ Covered(nums, i, lo + 1, dq2, TRUE)
<1>1. PICK h \in Nat : h = Len(dq)
  BY LenProperties DEF Deque
<1>2. \A j \in 1..h : dq[j] \in Int /\ dq[j] >= lo /\ dq[j] \in 0..(i - 1)
  BY <1>1, ElementOfSeq DEF Deque
<1>3. \A q \in 1..i : q > lo + 1 => Covers(nums, dq, q)
  BY DEF Covered
<1>4. CASE dq # <<>> /\ Head(dq) <= lo
  <2>1. h \in 1..h /\ 1 \in 1..h /\ h - 1 \in Nat
    BY <1>1, <1>4, EmptySeq DEF Deque
  <2>2. Head(dq) = dq[1] /\ dq2 \in Seq(0..(i - 1)) /\ Len(dq2) = h - 1
        /\ \A j \in 1..(h - 1) : dq2[j] = dq[j + 1]
    BY <1>1, <1>4, HeadTailProperties DEF Deque
  <2>3. \A j \in 1..(h - 1) : j + 1 \in 1..h /\ 1 < j + 1
    BY <1>1
  <2>4. \A j \in 1..(h - 1) : dq2[j] >= lo + 1
    <3> SUFFICES ASSUME NEW j \in 1..(h - 1) PROVE dq2[j] >= lo + 1
      OBVIOUS
    <3>1. dq[1] < dq[j + 1]
      BY <1>1, <2>1, <2>3, Falls DEF Deque
    <3>2. dq2[j] = dq[j + 1] /\ dq[1] \in Int /\ dq[1] >= lo /\ dq[j + 1] \in Int
      BY <1>2, <2>1, <2>2, <2>3
    <3>3. PICK a \in Int, b \in Int : a = dq[1] /\ b = dq[j + 1]
      BY <3>2
    <3>4. b >= lo + 1
      BY <3>1, <3>2, <3>3
    <3> QED
      BY <3>2, <3>3, <3>4
  <2>5. StackFalls(nums, dq2)
    <3> SUFFICES ASSUME NEW j \in 1..(h - 1), NEW l \in 1..(h - 1), j < l
                 PROVE  dq2[j] < dq2[l] /\ nums[dq2[l] + 1] <= nums[dq2[j] + 1]
      BY <2>2 DEF StackFalls
    <3>1. j + 1 \in 1..h /\ l + 1 \in 1..h /\ j + 1 < l + 1
      BY <2>3
    <3>2. dq2[j] = dq[j + 1] /\ dq2[l] = dq[l + 1]
      BY <2>2
    <3> QED
      BY <1>1, <3>1, <3>2 DEF Deque, StackFalls
  <2>6. ASSUME NEW q \in 1..i, q > lo + 1 PROVE Covers(nums, dq2, q)
    <3>1. PICK j \in 1..h : dq[j] + 1 >= q /\ nums[dq[j] + 1] >= nums[q]
      BY <1>1, <1>3, <2>6 DEF Covers
    <3>2. j # 1
      BY <1>2, <1>4, <2>1, <2>2, <2>6, <3>1
    <3>3. PICK l \in 1..(h - 1) : j = l + 1
      <4>1. j - 1 \in 1..(h - 1) /\ j = (j - 1) + 1
        BY <3>2
      <4> QED
        BY <4>1
    <3>4. dq2[l] = dq[j]
      BY <2>2, <3>3
    <3> QED
      BY <2>2, <3>1, <3>3, <3>4 DEF Covers
  <2> QED
    BY <2>2, <2>4, <2>5, <2>6 DEF Deque, Covered
<1>5. CASE ~(dq # <<>> /\ Head(dq) <= lo)
  <2>1. dq2 = dq
    BY <1>5
  <2>2. ASSUME NEW j \in 1..h PROVE dq[j] >= lo + 1
    <3>1. dq # <<>> /\ 1 \in 1..h
      BY <1>1, <2>2, EmptySeq
    <3>2. Head(dq) = dq[1]
      BY <3>1, HeadTailProperties DEF Deque
    <3>3. dq[1] >= lo + 1
      BY <1>2, <1>5, <3>1, <3>2
    <3>4. j = 1 \/ dq[1] < dq[j]
      BY <1>1, <3>1 DEF Deque, StackFalls
    <3> QED
      BY <1>2, <3>1, <3>3, <3>4
  <2> QED
    BY <1>1, <1>3, <2>1, <2>2 DEF Deque, Covered
<1> QED
  BY <1>4, <1>5

(* The first m of a sequence.                                              *)
LEMMA FirstOnes ==
    ASSUME NEW S, NEW s, NEW m \in Nat, \A j \in 1..m : s[j] \in S
    PROVE  /\ SubSeq(s, 1, m) \in Seq(S)
           /\ Len(SubSeq(s, 1, m)) = m
           /\ \A j \in 1..m : SubSeq(s, 1, m)[j] = s[j]
<1>1. /\ SubSeq(s, 1, m) \in Seq(S)
      /\ Len(SubSeq(s, 1, m)) = IF 1 <= m THEN m - 1 + 1 ELSE 0
      /\ \A j \in 1..(m - 1 + 1) : SubSeq(s, 1, m)[j] = s[1 + j - 1]
  BY SubSeqProperties
<1>2. m - 1 + 1 = m /\ \A j \in 1..m : 1 + j - 1 = j
  OBVIOUS
<1> QED
  BY <1>1, <1>2

(* What is no larger than the next value leaves the deque.                 *)
LEMMA LastLeaves ==
    ASSUME NEW nums \in Seq(Int), NEW i \in Nat, NEW lo \in Int, NEW dq, i < Len(nums),
           Deque(nums, i, lo, dq), Covered(nums, i, lo, dq, TRUE),
           dq # <<>>, nums[dq[Len(dq)] + 1] <= nums[i + 1]
    PROVE  Deque(nums, i, lo, SubSeq(dq, 1, Len(dq) - 1)) /\ Covered(nums, i, lo, SubSeq(dq, 1, Len(dq) - 1), TRUE)
<1>1. PICK h \in Nat, n \in Nat : h = Len(dq) /\ n = Len(nums)
  BY LenProperties DEF Deque
<1>2. \A j \in 1..h : dq[j] \in 0..(i - 1) /\ dq[j] >= lo
  BY <1>1, ElementOfSeq DEF Deque
<1>3. h \in 1..h /\ h - 1 \in Nat
  BY <1>1, EmptySeq DEF Deque
<1>4. PICK new : new = SubSeq(dq, 1, h - 1)
  OBVIOUS
<1>5. /\ new \in Seq(0..(i - 1)) /\ Len(new) = h - 1
      /\ \A j \in 1..(h - 1) : new[j] = dq[j] /\ j \in 1..h
  <2>1. \A j \in 1..(h - 1) : j \in 1..h /\ dq[j] \in 0..(i - 1)
    BY <1>2, <1>3
  <2> QED
    BY <1>3, <1>4, <2>1, FirstOnes
<1>6. Deque(nums, i, lo, new)
  BY <1>1, <1>2, <1>5 DEF Deque, StackFalls
<1>7. \A q \in 1..n : nums[q] \in Int
  BY <1>1, ElementOfSeq
<1>8. ASSUME NEW q \in 1..i, q > lo
      PROVE  Covers(nums, new, q) \/ nums[i + 1] >= nums[q]
  <2>1. CASE nums[i + 1] >= nums[q]
    BY <2>1
  <2>2. CASE Covers(nums, dq, q)
    <3>1. PICK j \in 1..h : dq[j] + 1 >= q /\ nums[dq[j] + 1] >= nums[q]
      BY <1>1, <2>2 DEF Covers
    <3>2. CASE j = h
      <4>1. \A x \in 0..(i - 1) : x + 1 \in 1..n
        BY <1>1
      <4>2. dq[h] + 1 \in 1..n /\ q \in 1..n /\ i + 1 \in 1..n
        <5>1. dq[h] \in 0..(i - 1)
          BY <1>2, <1>3
        <5>2. q \in 1..n /\ i + 1 \in 1..n
          BY <1>1
        <5> QED
          BY <4>1, <5>1, <5>2
      <4>3. nums[dq[h] + 1] \in Int /\ nums[q] \in Int /\ nums[i + 1] \in Int
        BY <1>7, <4>2
      <4> QED
        BY <1>1, <3>1, <3>2, <4>3
    <3>3. CASE j # h
      <4>1. j \in 1..(h - 1)
        BY <3>3
      <4> QED
        BY <1>5, <3>1, <4>1 DEF Covers
    <3> QED
      BY <3>2, <3>3
  <2> QED
    BY <1>8, <2>1, <2>2 DEF Covered
<1> QED
  BY <1>1, <1>4, <1>6, <1>8 DEF Covered

(* Then the next index is put in, and the first one is that of the         *)
(* window's maximum.                                                       *)
LEMMA NextIsAdded ==
    ASSUME NEW nums \in Seq(Int), NEW i \in Nat, NEW lo \in Int, NEW dq, i < Len(nums), lo <= i,
           Deque(nums, i, lo, dq), Covered(nums, i, lo, dq, TRUE),
           dq # <<>> => nums[dq[Len(dq)] + 1] > nums[i + 1]
    PROVE  /\ Deque(nums, i + 1, lo, Append(dq, i)) /\ Covered(nums, i + 1, lo, Append(dq, i), FALSE)
           /\ lo >= 0 => IsMaximum(nums, lo + 1, i + 1, nums[Head(Append(dq, i)) + 1])
           /\ nums[Head(Append(dq, i)) + 1] \in Int
<1>1. PICK h \in Nat, n \in Nat : h = Len(dq) /\ n = Len(nums)
  BY LenProperties DEF Deque
<1>2. \A q \in 1..n : nums[q] \in Int
  BY <1>1, ElementOfSeq
<1>3. \A x \in 0..i : x + 1 \in 1..n
  BY <1>1
<1>4. PICK new : new = Append(dq, i)
  OBVIOUS
<1>5. /\ new \in Seq(0..i) /\ Len(new) = h + 1
      /\ \A j \in 1..h : new[j] = dq[j]
      /\ new[h + 1] = i
  <2>1. 0..(i - 1) \subseteq 0..i /\ i \in 0..i
    OBVIOUS
  <2>2. dq \in Seq(0..i)
    BY <2>1, SeqMonotonic DEF Deque
  <2> QED
    BY <1>1, <1>4, <2>1, <2>2, AppendProperties
<1>6. \A j \in 1..h : dq[j] \in 0..(i - 1) /\ dq[j] >= lo
  BY <1>1, ElementOfSeq DEF Deque
<1>7. \A j \in 1..(h + 1) : new[j] \in 0..i /\ nums[new[j] + 1] \in Int
  <2>1. \A j \in 1..(h + 1) : new[j] \in 0..i
    BY <1>5, ElementOfSeq
  <2> QED
    BY <1>2, <1>3, <2>1
<1>8. \A j \in 1..(h + 1) : j \in 1..h \/ j = h + 1
  OBVIOUS
<1>9. ASSUME NEW j \in 1..h PROVE nums[i + 1] <= nums[dq[j] + 1]
  <2>1. h \in 1..h /\ dq # <<>>
    BY <1>1, NotEmpty DEF Deque
  <2>2. nums[dq[h] + 1] > nums[i + 1]
    BY <1>1, <2>1
  <2>3. j = h \/ nums[dq[h] + 1] <= nums[dq[j] + 1]
    <3>1. j = h \/ j < h
      BY <1>1
    <3> QED
      BY <1>1, <2>1, <3>1, Falls DEF Deque
  <2>4. nums[dq[h] + 1] \in Int /\ nums[dq[j] + 1] \in Int /\ nums[i + 1] \in Int
    <3>1. j \in 1..(h + 1) /\ h \in 1..(h + 1) /\ h + 1 \in 1..(h + 1)
      BY <1>1
    <3> QED
      BY <1>5, <1>7, <2>1, <3>1
  <2> QED
    BY <2>2, <2>3, <2>4
<1>10. StackFalls(nums, new)
  <2> SUFFICES ASSUME NEW j \in 1..(h + 1), NEW k \in 1..(h + 1), j < k
               PROVE  new[j] < new[k] /\ nums[new[k] + 1] <= nums[new[j] + 1]
    BY <1>5 DEF StackFalls
  <2>1. j \in 1..h
    OBVIOUS
  <2>2. CASE k = h + 1
    <3>1. new[j] = dq[j] /\ new[k] = i
      BY <1>5, <2>1, <2>2
    <3>2. dq[j] < i
      <4>1. dq[j] \in 0..(i - 1)
        BY <1>6, <2>1
      <4> QED
        BY <4>1
    <3> QED
      BY <1>9, <2>1, <3>1, <3>2
  <2>3. CASE k # h + 1
    <3>1. k \in 1..h
      BY <2>3
    <3>2. new[j] = dq[j] /\ new[k] = dq[k]
      BY <1>5, <2>1, <3>1
    <3> QED
      BY <1>1, <2>1, <3>1, <3>2 DEF Deque, StackFalls
  <2> QED
    BY <2>2, <2>3
<1>11. Deque(nums, i + 1, lo, new)
  <2>1. (i + 1) - 1 = i
    OBVIOUS
  <2>2. \A j \in 1..(h + 1) : new[j] >= lo
    BY <1>5, <1>6, <1>8
  <2> QED
    BY <1>5, <1>10, <2>1, <2>2 DEF Deque
<1>12. ASSUME NEW q \in 1..(i + 1), q > lo PROVE Covers(nums, new, q)
  <2>1. h + 1 \in 1..(h + 1) /\ new[h + 1] + 1 = i + 1 /\ i + 1 >= q
    BY <1>5
  <2>2. CASE q = i + 1
    <3>1. nums[q] \in Int
      BY <1>2, <1>3, <2>2
    <3> QED
      BY <1>5, <2>1, <2>2, <3>1 DEF Covers
  <2>3. CASE q # i + 1
    <3>1. q \in 1..i
      BY <2>3
    <3>2. CASE nums[i + 1] >= nums[q]
      BY <1>5, <2>1, <3>2 DEF Covers
    <3>3. CASE Covers(nums, dq, q)
      <4>1. PICK j \in 1..h : dq[j] + 1 >= q /\ nums[dq[j] + 1] >= nums[q]
        BY <1>1, <3>3 DEF Covers
      <4>2. new[j] = dq[j] /\ j \in 1..(h + 1)
        BY <1>5
      <4> QED
        BY <1>5, <4>1, <4>2 DEF Covers
    <3> QED
      BY <1>12, <3>1, <3>2, <3>3 DEF Covered
  <2> QED
    BY <2>2, <2>3
<1>13. Head(new) = new[1] /\ 1 \in 1..(h + 1)
  <2>1. new # <<>>
    BY <1>5, EmptySeq
  <2> QED
    BY <1>5, <2>1, HeadTailProperties
<1>14. ASSUME lo >= 0 PROVE IsMaximum(nums, lo + 1, i + 1, nums[new[1] + 1])
  <2>1. new[1] + 1 \in (lo + 1)..(i + 1)
    <3>1. new[1] >= lo /\ new[1] \in 0..i
      BY <1>5, <1>7, <1>11, <1>13 DEF Deque
    <3> QED
      BY <3>1
  <2>2. ASSUME NEW q \in (lo + 1)..(i + 1) PROVE nums[q] <= nums[new[1] + 1]
    <3>1. q \in 1..(i + 1) /\ q > lo /\ q \in 1..n
      BY <1>1, <1>14
    <3>2. PICK j \in 1..(h + 1) : nums[new[j] + 1] >= nums[q]
      BY <1>5, <1>12, <3>1 DEF Covers
    <3>3. j = 1 \/ nums[new[j] + 1] <= nums[new[1] + 1]
      <4>1. h + 1 \in Nat /\ (j = 1 \/ 1 < j)
        BY <1>1
      <4> QED
        BY <1>5, <1>10, <1>13, <4>1, Falls
    <3>4. nums[q] \in Int /\ nums[new[j] + 1] \in Int /\ nums[new[1] + 1] \in Int
      BY <1>2, <1>7, <1>13, <3>1
    <3>5. PICK a \in Int, b \in Int, c \in Int : a = nums[q] /\ b = nums[new[j] + 1] /\ c = nums[new[1] + 1]
      BY <3>4
    <3>6. a <= b /\ b <= c
      BY <3>2, <3>3, <3>5
    <3>7. a <= c
      BY <3>6
    <3> QED
      BY <3>5, <3>7
  <2> QED
    BY <2>1, <2>2 DEF IsMaximum
<1> QED
  BY <1>4, <1>7, <1>11, <1>12, <1>13, <1>14 DEF Covered

LEMMA MaximumIsAdded ==
    ASSUME NEW nums, NEW k \in Nat \ {0}, NEW i \in Nat, NEW res, NEW m \in Int,
           Maxima(nums, k, i, res), i - k + 1 >= 0 => IsMaximum(nums, i - k + 1 + 1, i + 1, m)
    PROVE  Maxima(nums, k, i + 1, IF i >= k - 1 THEN Append(res, m) ELSE res)
<1>1. PICK l \in Nat : l = Len(res)
  BY LenProperties DEF Maxima
<1>2. CASE i >= k - 1
  <2>1. /\ Append(res, m) \in Seq(Int) /\ Len(Append(res, m)) = l + 1
        /\ \A w \in 1..l : Append(res, m)[w] = res[w]
        /\ Append(res, m)[l + 1] = m
    BY <1>1, AppendProperties DEF Maxima
  <2>2. l = i - k + 1
    BY <1>1, <1>2 DEF Maxima
  <2>3. l + 1 = (i + 1) - k + 1 /\ i + 1 >= k /\ l + 1 + k - 1 = i + 1
    BY <1>2, <2>2
  <2>4. IsMaximum(nums, l + 1, l + 1 + k - 1, m)
    BY <1>2, <2>2, <2>3
  <2>5. \A w \in 1..(l + 1) : w \in 1..l \/ w = l + 1
    OBVIOUS
  <2>6. \A w \in 1..(l + 1) : IsMaximum(nums, w, w + k - 1, Append(res, m)[w])
    BY <1>1, <2>1, <2>4, <2>5 DEF Maxima
  <2> QED
    BY <1>2, <2>1, <2>3, <2>6 DEF Maxima
<1>3. CASE ~(i >= k - 1)
  <2>1. ~(i >= k) /\ ~(i + 1 >= k)
    BY <1>3
  <2> QED
    BY <1>3, <2>1 DEF Maxima
<1> QED
  BY <1>2, <1>3

LEMMA WindowStep ==
    ASSUME WindowInv, which = "stacks", call.fn = "max_sliding_window", which' = which, call' = call,
           Stk!max_sliding_window
    PROVE  WindowInv'
<1>1. PICK nums, k, i, dq, left, res :
          nums = call.nums /\ k = call.k /\ i = loc.i /\ dq = loc.deque /\ left = loc.left /\ res = loc.result
  OBVIOUS
<1>2. /\ ret = <<>>
      /\ nums \in Seq(Int) /\ Len(nums) \in Nat /\ k \in Nat \ {0} /\ i \in 0..Len(nums) /\ i \in Nat
      /\ loc = [i |-> i, deque |-> dq, left |-> left, result |-> res]
      /\ Maxima(nums, k, i, res)
      /\ i - k \in Int /\ i - k + 1 \in Int /\ i - k + 1 <= i
  BY <1>1, LenProperties DEF WindowInv, Stk!max_sliding_window, Stk!Runs
<1>3. \/ left = FALSE /\ Deque(nums, i, i - k, dq) /\ Covered(nums, i, i - k, dq, FALSE)
      \/ left = TRUE /\ i < Len(nums) /\ Deque(nums, i, i - k + 1, dq) /\ Covered(nums, i, i - k + 1, dq, TRUE)
  BY <1>1 DEF WindowInv
<1>4. CASE loc' = loc /\ ret' = <<res>> /\ i = Len(nums)
  BY <1>1, <1>2, <1>3, <1>4 DEF WindowInv
<1>5. ASSUME i < Len(nums), left = FALSE, ret' = ret, NEW dq2,
             dq2 = IF dq # <<>> /\ Head(dq) <= i - k THEN Tail(dq) ELSE dq,
             loc' = [i |-> i, deque |-> dq2, left |-> TRUE, result |-> res]
      PROVE  WindowInv'
  <2>1. Deque(nums, i, i - k + 1, dq2) /\ Covered(nums, i, i - k + 1, dq2, TRUE)
    BY <1>2, <1>3, <1>5, FirstLeaves
  <2> QED
    BY <1>1, <1>2, <1>5, <2>1 DEF WindowInv
<1>6. ASSUME left = TRUE, dq # <<>>, nums[dq[Len(dq)] + 1] <= nums[i + 1], ret' = ret,
             loc' = [i |-> i, deque |-> SubSeq(dq, 1, Len(dq) - 1), left |-> TRUE, result |-> res]
      PROVE  WindowInv'
  <2>1. /\ Deque(nums, i, i - k + 1, SubSeq(dq, 1, Len(dq) - 1))
        /\ Covered(nums, i, i - k + 1, SubSeq(dq, 1, Len(dq) - 1), TRUE)
    BY <1>2, <1>3, <1>6, LastLeaves
  <2> QED
    BY <1>1, <1>2, <1>3, <1>6, <2>1 DEF WindowInv
<1>7. ASSUME left = TRUE, dq # <<>> => nums[dq[Len(dq)] + 1] > nums[i + 1], ret' = ret, NEW new, NEW res2,
             new = Append(dq, i),
             res2 = IF i >= k - 1 THEN Append(res, nums[Head(new) + 1]) ELSE res,
             loc' = [i |-> i + 1, deque |-> new, left |-> FALSE, result |-> res2]
      PROVE  WindowInv'
  <2>1. /\ Deque(nums, i + 1, i - k + 1, new) /\ Covered(nums, i + 1, i - k + 1, new, FALSE)
        /\ i - k + 1 >= 0 => IsMaximum(nums, i - k + 1 + 1, i + 1, nums[Head(new) + 1])
        /\ nums[Head(new) + 1] \in Int
    BY <1>2, <1>3, <1>7, NextIsAdded
  <2>2. Maxima(nums, k, i + 1, res2)
    BY <1>2, <1>7, <2>1, MaximumIsAdded
  <2>3. (i + 1) - k = i - k + 1 /\ i + 1 \in 0..Len(nums)
    BY <1>2, <1>3, <1>7
  <2> QED
    BY <1>1, <1>2, <1>7, <2>1, <2>2, <2>3 DEF WindowInv
<1>8. \/ loc' = loc /\ ret' = <<res>> /\ i = Len(nums)
      \/ /\ i < Len(nums) /\ left = FALSE /\ ret' = ret
         /\ loc' = [loc EXCEPT !.left = TRUE, !.deque = IF @ # <<>> /\ Head(@) <= i - k THEN Tail(@) ELSE @]
      \/ /\ left # FALSE /\ dq # <<>> /\ nums[dq[Len(dq)] + 1] <= nums[i + 1] /\ ret' = ret
         /\ loc' = [loc EXCEPT !.deque = SubSeq(@, 1, Len(@) - 1)]
      \/ /\ left # FALSE /\ (dq # <<>> => nums[dq[Len(dq)] + 1] > nums[i + 1]) /\ ret' = ret
         /\ loc' = [i |-> i + 1, deque |-> Append(dq, i), left |-> FALSE,
                    result |-> IF i >= k - 1 THEN Append(res, nums[Head(Append(dq, i)) + 1]) ELSE res]
  BY <1>1, <1>3 DEF Stk!max_sliding_window, Stk!Goes, Stk!Returns, Stk!Front, Stk!Last
<1> QED
  BY <1>2, <1>3, <1>4, <1>5, <1>6, <1>7, <1>8

(* max_sliding_window returns the maximum of every window of k elements,   *)
(* for arrays and windows of every length.                                 *)
THEOREM MaximumOfWindows ==
    DataSpec => [](which = "stacks" /\ call.fn = "max_sliding_window" /\ ret # <<>> => Stk!IsResult(ret[1]))
<1>1. WindowInv /\ [DataNext]_<<which, vars, topicVars, ringVars, stackQueueVars, minVars, frameVars>> => WindowInv'
  <2> SUFFICES ASSUME WindowInv,
                      [DataNext]_<<which, vars, topicVars, ringVars, stackQueueVars, minVars, frameVars>>,
                      which' = "stacks", call'.fn = "max_sliding_window"
               PROVE  WindowInv'
    BY DEF WindowInv
  <2>1. which = "stacks"
    BY DEF DataNext, Call, Turn
  <2>2. /\ which' = which /\ call' = call
        /\ Stk!Next \/ UNCHANGED <<loc, ret>>
    BY <2>1, StacksStepIs
  <2>3. CASE Stk!max_sliding_window
    BY <2>1, <2>2, <2>3, WindowStep
  <2>4. CASE UNCHANGED <<loc, ret>>
    BY <2>1, <2>2, <2>4 DEF WindowInv
  <2> QED
    BY <2>2, <2>3, <2>4 DEF Stk!Next, Stk!Runs, Stk!is_valid_parentheses, Stk!eval_rpn, Stk!shortest_path,
                            Stk!daily_temperatures
<1>2. WindowInv => (which = "stacks" /\ call.fn = "max_sliding_window" /\ ret # <<>> => Stk!IsResult(ret[1]))
  <2> SUFFICES ASSUME WindowInv, which = "stacks", call.fn = "max_sliding_window", ret # <<>>
               PROVE  Stk!IsResult(ret[1])
    OBVIOUS
  <2>1. PICK nums, n, k, r : nums = call.nums /\ n = Len(nums) /\ k = call.k /\ r = loc.result
    OBVIOUS
  <2>2. /\ ret[1] = r /\ Maxima(nums, k, n, r) /\ k \in Nat \ {0} /\ n \in Nat /\ nums \in Seq(Int)
    BY <2>1, LenProperties DEF WindowInv
  <2>3. Len(r) = IF k <= n THEN n - k + 1 ELSE 0
    BY <2>2 DEF Maxima
  <2>4. ASSUME NEW w \in 1..Len(r)
        PROVE  LET window == {nums[j] : j \in w..(w + k - 1)}
               IN  r[w] \in window /\ \A v \in window : v <= r[w]
    <3>1. IsMaximum(nums, w, w + k - 1, r[w])
      BY <2>2 DEF Maxima
    <3> QED
      BY <3>1 DEF IsMaximum
  <2> QED
    BY <2>1, <2>2, <2>3, <2>4 DEF Stk!IsResult
<1> QED
  BY <1>1, <1>2, WindowStarts, PTL DEF DataSpec

-----------------------------------------------------------------------------
(* array_medium_rotate_array: the elements are 1..n, and positions count   *)
(* from 0, as the code's do.                                               *)

LEMMA QuotientIs ==
    ASSUME NEW n \in Nat \ {0}, NEW q \in Int, NEW b \in 0..(n - 1)
    PROVE  (n * q + b) % n = b
OBVIOUS

LEMMA HasQuotient ==
    ASSUME NEW n \in Nat \ {0}, NEW k \in Nat
    PROVE  \E q \in Nat, b \in 0..(n - 1) : k = n * q + b
<1> DEFINE Rests == {x \in Nat : \E q \in Nat : k = n * q + x}
<1>1. k \in Rests
  <2>1. k = n * 0 + k
    OBVIOUS
  <2> QED
    BY <2>1
<1>2. PICK b \in Rests : \A y \in Rests : ~(<<y, b>> \in OpToRel(<, Nat))
  BY <1>1, NatLessThanWellFounded, WFMin
<1>3. PICK q \in Nat : k = n * q + b
  BY <1>2
<1>4. b < n
  <2>1. SUFFICES ASSUME b >= n PROVE FALSE
    OBVIOUS
  <2>2. b - n \in Nat /\ k = n * (q + 1) + (b - n)
    BY <1>3, <2>1
  <2>3. b - n \in Rests
    BY <2>2
  <2>4. <<b - n, b>> \in OpToRel(<, Nat)
    BY <2>2 DEF OpToRel
  <2> QED
    BY <1>2, <2>3, <2>4
<1> QED
  BY <1>3, <1>4

LEMMA RestIsBelow ==
    ASSUME NEW n \in Nat \ {0}, NEW k \in Nat
    PROVE  k % n \in 0..(n - 1)
OBVIOUS

LEMMA ModSum ==
    ASSUME NEW n \in Nat \ {0}, NEW k \in Nat, NEW a \in 0..(n - 1)
    PROVE  (a + k) % n = IF a + (k % n) < n THEN a + (k % n) ELSE a + (k % n) - n
<1>1. PICK q \in Nat, b \in 0..(n - 1) : k = n * q + b
  BY HasQuotient
<1>2. k % n = b
  BY <1>1, QuotientIs
<1>3. CASE a + b < n
  <2>1. a + k = n * q + (a + b) /\ a + b \in 0..(n - 1) /\ q \in Int
    BY <1>1, <1>3
  <2>2. (a + k) % n = a + b
    BY <2>1, QuotientIs
  <2> QED
    BY <1>2, <1>3, <2>2
<1>4. CASE ~(a + b < n)
  <2>1. a + k = n * (q + 1) + (a + b - n) /\ a + b - n \in 0..(n - 1) /\ q + 1 \in Int
    BY <1>1, <1>4
  <2>2. (a + k) % n = a + b - n
    BY <2>1, QuotientIs
  <2> QED
    BY <1>2, <1>4, <2>2
<1> QED
  BY <1>3, <1>4

(* The call stays the same, and a step is one of its function.             *)
LEMMA ArraysStepIs ==
    ASSUME which = "arrays",
           [DataNext]_<<which, vars, topicVars, ringVars, stackQueueVars, minVars, frameVars>>
    PROVE  /\ which' = which
           /\ call' = call
           /\ Arr!Next \/ UNCHANGED <<loc, ret>>
<1>1. CASE Call
  <2>1. Arr!Next /\ which' = which
    BY <1>1 DEF Call, Turn
  <2>2. call' = call
    BY <2>1 DEF Arr!Next, Arr!move_zeroes, Arr!rotate, Arr!min_sub_array_len, Arr!run, Arr!Goes, Arr!Returns
  <2> QED
    BY <2>1, <2>2
<1>2. CASE UNCHANGED <<which, vars, topicVars, ringVars, stackQueueVars, minVars, frameVars>>
  BY <1>2 DEF frameVars
<1>3. CASE DataNext /\ ~Call
  BY <1>3 DEF DataNext, Turn
<1> QED
  BY <1>1, <1>2, <1>3

(* Where the element at position p of the ranges reversed so far was: in   *)
(* the present range, what lies in left..right is still to be reversed.    *)
CameFrom(n, k, range, left, right, p) ==
    LET done == p < left \/ right < p
    IN  CASE range = 0 -> p
          [] range = 1 -> IF done THEN n - 1 - p ELSE p
          [] range = 2 -> IF p < k /\ done THEN n - k + p ELSE n - 1 - p
          [] range = 3 -> IF p < k THEN n - k + p ELSE IF done THEN p - k ELSE n - 1 - p

(* reverse_range works from both ends.                                     *)
Ends(n, k, range, left, right) ==
    /\ left <= right + 1
    /\ range = 0 => left = right
    /\ range = 1 => left + right = n - 1 /\ left >= 0
    /\ range = 2 => left + right = k - 1 /\ left >= 0
    /\ range = 3 => left + right = n - 1 + k /\ left >= k

Rotating(nums, n, k, range, left, right) ==
    /\ nums \in Seq(Nat) /\ Len(nums) = n
    /\ range \in 0..3 /\ left \in Int /\ right \in Int
    /\ Ends(n, k, range, left, right)
    /\ \A p \in 0..(n - 1) : nums[p + 1] = CameFrom(n, k, range, left, right, p) + 1

RotateInv ==
    which = "arrays" /\ call.fn = "rotate" =>
        /\ call.k \in Nat
        /\ Len(call.nums) \in Nat /\ \A j \in 1..Len(call.nums) : call.nums[j] = j
        /\ loc = [nums |-> loc.nums, range |-> loc.range, left |-> loc.left, right |-> loc.right]
        /\ Len(loc.nums) = Len(call.nums)
        /\ Len(call.nums) > 0 =>
               Rotating(loc.nums, Len(call.nums), call.k % Len(call.nums), loc.range, loc.left, loc.right)
        /\ ret # <<>> =>
               /\ ret = <<loc.nums>>
               /\ Len(call.nums) > 0 => loc.range = 3 /\ loc.left >= loc.right

LEMMA RotateStarts == DataInit => RotateInv
<1> SUFFICES ASSUME DataInit, which = "arrays", call.fn = "rotate"
             PROVE  RotateInv
  BY DEF RotateInv
<1>1. call \in Arr!Calls /\ loc = Arr!Entry(call) /\ ret = <<>>
  BY DEF DataInit, Begins
<1>2. PICK n \in 0..MaxArray, k \in 0..(MaxArray + 1) : call = [fn |-> "rotate", nums |-> [j \in 1..n |-> j], k |-> k]
  BY <1>1 DEF Arr!Calls
<1>3. n \in Nat /\ k \in Nat
  BY <1>2, DataAssumption
<1>4. PICK nums : nums = [j \in 1..n |-> j]
  OBVIOUS
<1>5. nums \in Seq(Nat) /\ Len(nums) = n /\ \A j \in 1..n : nums[j] = j
  BY <1>3, <1>4
<1>6. /\ call.nums = nums /\ call.k = k
      /\ loc = [nums |-> nums, range |-> 0, left |-> 0, right |-> 0]
  BY <1>1, <1>2, <1>4 DEF Arr!Entry
<1>7. Rotating(nums, n, k % n, 0, 0, 0)
  <2>1. \A p \in 0..(n - 1) : p + 1 \in 1..n
    BY <1>3
  <2> QED
    BY <1>5, <2>1 DEF Rotating, Ends, CameFrom
<1>8. /\ loc.nums = nums /\ loc.range = 0 /\ loc.left = 0 /\ loc.right = 0
      /\ loc = [nums |-> loc.nums, range |-> loc.range, left |-> loc.left, right |-> loc.right]
  BY <1>6
<1> QED
  BY <1>1, <1>3, <1>5, <1>6, <1>7, <1>8 DEF RotateInv

(* The two elements that change places come to where they belong.          *)
LEMMA Crossed ==
    ASSUME NEW n \in Int, NEW k \in Int, NEW range, NEW left \in Int, NEW right \in Int,
           NEW left2 \in Int, NEW right2 \in Int, left2 = left + 1, right2 = right - 1,
           0 <= k, k < n, range = 1 \/ range = 2 \/ range = 3, left < right, Ends(n, k, range, left, right)
    PROVE  /\ CameFrom(n, k, range, left, right, right) = CameFrom(n, k, range, left2, right2, left)
           /\ CameFrom(n, k, range, left, right, left) = CameFrom(n, k, range, left2, right2, right)
<1>1. CASE range = 1
  <2>1. left + right = n - 1
    BY <1>1 DEF Ends
  <2> QED
    BY <1>1, <2>1 DEF CameFrom
<1>2. CASE range = 2
  <2>1. left + right = k - 1 /\ left < k /\ right < k /\ left >= 0
    BY <1>2 DEF Ends
  <2> QED
    BY <1>2, <2>1 DEF CameFrom
<1>3. CASE range = 3
  <2>1. left + right = n - 1 + k /\ ~(left < k) /\ ~(right < k)
    BY <1>3 DEF Ends
  <2> QED
    BY <1>3, <2>1 DEF CameFrom
<1> QED
  BY <1>1, <1>2, <1>3

(* One exchange.                                                           *)
LEMMA Exchanged ==
    ASSUME NEW n \in Nat \ {0}, NEW k \in 0..(n - 1), NEW nums, NEW range, NEW left, NEW right,
           Rotating(nums, n, k, range, left, right), left < right
    PROVE  Rotating([[nums EXCEPT ![left + 1] = nums[right + 1]] EXCEPT ![right + 1] = nums[left + 1]],
                    n, k, range, left + 1, right - 1)
<1>1. /\ nums \in Seq(Nat) /\ Len(nums) = n /\ range \in {1, 2, 3} /\ left \in Int /\ right \in Int
      /\ left \in 0..(n - 1) /\ right \in 0..(n - 1) /\ left + 1 \in 1..n /\ right + 1 \in 1..n
  BY DEF Rotating, Ends
<1>2. PICK one, two : /\ one = [nums EXCEPT ![left + 1] = nums[right + 1]]
                      /\ two = [one EXCEPT ![right + 1] = nums[left + 1]]
  OBVIOUS
<1>3. nums[right + 1] \in Nat /\ nums[left + 1] \in Nat
  BY <1>1, ElementOfSeq
<1>4. /\ one \in Seq(Nat) /\ Len(one) = n
      /\ \A j \in 1..n : one[j] = IF j = left + 1 THEN nums[right + 1] ELSE nums[j]
  BY <1>1, <1>2, <1>3, ExceptSeq
<1>5. /\ two \in Seq(Nat) /\ Len(two) = n
      /\ \A j \in 1..n : two[j] = IF j = right + 1 THEN nums[left + 1] ELSE one[j]
  BY <1>1, <1>2, <1>3, <1>4, ExceptSeq
<1>6. /\ n \in Int /\ k \in Int /\ 0 <= k /\ k < n /\ left + 1 \in Int /\ right - 1 \in Int
      /\ range = 1 \/ range = 2 \/ range = 3
      /\ Ends(n, k, range, left, right)
      /\ \A p \in 0..(n - 1) : nums[p + 1] = CameFrom(n, k, range, left, right, p) + 1
  BY <1>1 DEF Rotating
<1>7. ASSUME NEW p \in 0..(n - 1)
      PROVE  two[p + 1] = CameFrom(n, k, range, left + 1, right - 1, p) + 1
  <2>1. p + 1 \in 1..n /\ p \in Int
    OBVIOUS
  <2>2. CASE p = left
    <3>1. two[p + 1] = nums[right + 1]
      BY <1>1, <1>4, <1>5, <2>1, <2>2
    <3>2. nums[right + 1] = CameFrom(n, k, range, left, right, right) + 1
      BY <1>1, <1>6
    <3>3. CameFrom(n, k, range, left, right, right) = CameFrom(n, k, range, left + 1, right - 1, left)
      <4>1. PICK l \in Int, r \in Int : l = left + 1 /\ r = right - 1
        BY <1>6
      <4>2. n \in Int /\ k \in Int /\ left \in Int /\ right \in Int /\ left < right
        BY <1>1, <1>6
      <4> QED
        BY <1>6, <4>1, <4>2, Crossed
    <3> QED
      BY <2>2, <3>1, <3>2, <3>3
  <2>3. CASE p = right
    <3>1. two[p + 1] = nums[left + 1]
      BY <1>1, <1>5, <2>1, <2>3
    <3>2. nums[left + 1] = CameFrom(n, k, range, left, right, left) + 1
      BY <1>1, <1>6
    <3>3. CameFrom(n, k, range, left, right, left) = CameFrom(n, k, range, left + 1, right - 1, right)
      <4>1. PICK l \in Int, r \in Int : l = left + 1 /\ r = right - 1
        BY <1>6
      <4>2. n \in Int /\ k \in Int /\ left \in Int /\ right \in Int /\ left < right
        BY <1>1, <1>6
      <4> QED
        BY <1>6, <4>1, <4>2, Crossed
    <3> QED
      BY <2>3, <3>1, <3>2, <3>3
  <2>4. CASE p # left /\ p # right
    <3>1. two[p + 1] = one[p + 1] /\ one[p + 1] = nums[p + 1]
      <4>1. p + 1 # left + 1 /\ p + 1 # right + 1
        BY <1>1, <2>1, <2>4
      <4> QED
        BY <1>4, <1>5, <2>1, <4>1
    <3>2. (p < left \/ right < p) <=> (p < left + 1 \/ right - 1 < p)
      BY <1>1, <2>1, <2>4
    <3>3. CameFrom(n, k, range, left, right, p) = CameFrom(n, k, range, left + 1, right - 1, p)
      BY <3>2 DEF CameFrom
    <3> QED
      BY <1>6, <3>1, <3>3
  <2> QED
    BY <2>2, <2>3, <2>4
<1>8. Ends(n, k, range, left + 1, right - 1)
  BY <1>1 DEF Rotating, Ends
<1>9. PICK m, l, r : m = two /\ l = left + 1 /\ r = right - 1
  OBVIOUS
<1>10. /\ m \in Seq(Nat) /\ Len(m) = n /\ range \in 0..3 /\ l \in Int /\ r \in Int
       /\ Ends(n, k, range, l, r)
       /\ \A p \in 0..(n - 1) : m[p + 1] = CameFrom(n, k, range, l, r, p) + 1
  BY <1>1, <1>5, <1>7, <1>8, <1>9
<1>11. Rotating(m, n, k, range, l, r)
  BY <1>10 DEF Rotating
<1> QED
  BY <1>2, <1>9, <1>11

(* A range is reversed, and the next one begins.                           *)
LEMMA NextRange ==
    ASSUME NEW n \in Nat \ {0}, NEW k \in 0..(n - 1), NEW nums, NEW range, NEW left, NEW right,
           Rotating(nums, n, k, range, left, right), ~(left < right), range # 3,
           NEW left2, NEW right2,
           \/ range = 0 /\ left2 = 0 /\ right2 = n - 1
           \/ range = 1 /\ left2 = 0 /\ right2 = k - 1
           \/ range = 2 /\ left2 = k /\ right2 = n - 1
    PROVE  Rotating(nums, n, k, range + 1, left2, right2)
<1>1. left \in Int /\ right \in Int /\ range \in {0, 1, 2} /\ left2 \in Int /\ right2 \in Int
  BY DEF Rotating
<1>2. ASSUME NEW p \in 0..(n - 1)
      PROVE  CameFrom(n, k, range, left, right, p) = CameFrom(n, k, range + 1, left2, right2, p)
  <2>1. CASE range = 0
    BY <1>1, <2>1 DEF CameFrom
  <2>2. CASE range = 1
    BY <1>1, <2>2 DEF Rotating, Ends, CameFrom
  <2>3. CASE range = 2
    BY <1>1, <2>3 DEF Rotating, Ends, CameFrom
  <2> QED
    BY <1>1, <2>1, <2>2, <2>3
<1>3. Ends(n, k, range + 1, left2, right2)
  BY <1>1 DEF Ends
<1> QED
  BY <1>1, <1>2, <1>3 DEF Rotating

LEMMA RotateStep ==
    ASSUME RotateInv, which = "arrays", call.fn = "rotate", which' = which, call' = call, Arr!rotate
    PROVE  RotateInv'
<1>1. PICK nums, n, k, range, left, right :
          /\ nums = loc.nums /\ n = Len(call.nums) /\ k = call.k % n
          /\ range = loc.range /\ left = loc.left /\ right = loc.right
  OBVIOUS
<1>2. /\ ret = <<>> /\ n \in Nat /\ Len(nums) = n
      /\ loc = [nums |-> nums, range |-> range, left |-> left, right |-> right]
  BY <1>1 DEF RotateInv, Arr!rotate, Arr!Runs
<1>3. CASE n = 0
  <2>1. ret' = <<nums>> /\ loc' = loc
    BY <1>1, <1>2, <1>3 DEF Arr!rotate, Arr!size, Arr!Returns
  <2> QED
    BY <1>1, <1>2, <1>3, <2>1 DEF RotateInv
<1>4. CASE n # 0
  <2>1. n \in Nat \ {0} /\ Rotating(nums, n, k, range, left, right) /\ k \in 0..(n - 1)
    <3>1. call.k \in Nat /\ n \in Nat \ {0}
      BY <1>1, <1>2, <1>4 DEF RotateInv
    <3>2. k \in 0..(n - 1)
      BY <1>1, <3>1, RestIsBelow
    <3>3. Rotating(nums, n, k, range, left, right)
      BY <1>1, <3>1 DEF RotateInv
    <3> QED
      BY <3>1, <3>2, <3>3
  <2>2. \/ /\ left < right /\ ret' = ret
           /\ loc' = [loc EXCEPT !.nums[left + 1] = nums[right + 1], !.nums[right + 1] = nums[left + 1],
                                 !.left = @ + 1, !.right = @ - 1]
        \/ ~(left < right) /\ range = 3 /\ ret' = <<nums>> /\ loc' = loc
        \/ /\ ~(left < right) /\ range # 3 /\ ret' = ret
           /\ loc' = [loc EXCEPT !.range = @ + 1, !.left = Arr!Ranges(k)[range + 1][1], !.right = Arr!Ranges(k)[range + 1][2]]
    <3>1. n > 0 /\ left \in Int /\ right \in Int
      BY <1>2, <1>4, <2>1 DEF Rotating
    <3> QED
      BY <1>1, <3>1 DEF Arr!rotate, Arr!size, Arr!Goes, Arr!Returns
  <2>3. CASE /\ left < right /\ ret' = ret
             /\ loc' = [loc EXCEPT !.nums[left + 1] = nums[right + 1], !.nums[right + 1] = nums[left + 1],
                                   !.left = @ + 1, !.right = @ - 1]
    <3>1. PICK new : new = [[nums EXCEPT ![left + 1] = nums[right + 1]] EXCEPT ![right + 1] = nums[left + 1]]
      OBVIOUS
    <3>2. Rotating(new, n, k, range, left + 1, right - 1)
      BY <2>1, <2>3, <3>1, Exchanged
    <3>3. loc' = [nums |-> new, range |-> range, left |-> left + 1, right |-> right - 1]
      BY <1>2, <2>3, <3>1
    <3>4. /\ loc'.nums = new /\ loc'.range = range /\ loc'.left = left + 1 /\ loc'.right = right - 1
          /\ loc' = [nums |-> loc'.nums, range |-> loc'.range, left |-> loc'.left, right |-> loc'.right]
      BY <3>3
    <3>5. Len(new) = n
      BY <3>2 DEF Rotating
    <3> QED
      BY <1>1, <1>2, <2>3, <3>2, <3>4, <3>5 DEF RotateInv
  <2>4. CASE ~(left < right) /\ range = 3 /\ ret' = <<nums>> /\ loc' = loc
    <3>1. left >= right
      BY <2>1, <2>4 DEF Rotating
    <3> QED
      BY <1>1, <1>2, <2>1, <2>4, <3>1 DEF RotateInv
  <2>5. CASE /\ ~(left < right) /\ range # 3 /\ ret' = ret
             /\ loc' = [loc EXCEPT !.range = @ + 1, !.left = Arr!Ranges(k)[range + 1][1], !.right = Arr!Ranges(k)[range + 1][2]]
    <3>1. PICK left2, right2 : left2 = Arr!Ranges(k)[range + 1][1] /\ right2 = Arr!Ranges(k)[range + 1][2]
      OBVIOUS
    <3>2. range \in {0, 1, 2}
      BY <2>1, <2>5 DEF Rotating
    <3>3. \/ range = 0 /\ left2 = 0 /\ right2 = n - 1
          \/ range = 1 /\ left2 = 0 /\ right2 = k - 1
          \/ range = 2 /\ left2 = k /\ right2 = n - 1
      BY <1>1, <3>1, <3>2 DEF Arr!Ranges, Arr!size
    <3>4. Rotating(nums, n, k, range + 1, left2, right2)
      BY <2>1, <2>5, <3>3, NextRange
    <3>5. loc' = [nums |-> nums, range |-> range + 1, left |-> left2, right |-> right2]
      BY <1>2, <2>5, <3>1
    <3>6. /\ loc'.nums = nums /\ loc'.range = range + 1 /\ loc'.left = left2 /\ loc'.right = right2
          /\ loc' = [nums |-> loc'.nums, range |-> loc'.range, left |-> loc'.left, right |-> loc'.right]
      BY <3>5
    <3> QED
      BY <1>1, <1>2, <2>5, <3>4, <3>6 DEF RotateInv
  <2> QED
    BY <2>2, <2>3, <2>4, <2>5
<1> QED
  BY <1>3, <1>4

(* When the third range is reversed, position p has the element that k     *)
(* places take there.                                                      *)
LEMMA AllReversed ==
    ASSUME NEW n \in Nat \ {0}, NEW k \in 0..(n - 1), NEW a \in 0..(n - 1), NEW p, NEW left \in Int, NEW right \in Int,
           left >= right, left <= right + 1, left + right = n - 1 + k,
           p = IF a + k < n THEN a + k ELSE a + k - n
    PROVE  CameFrom(n, k, 3, left, right, p) = a
<1>1. CASE a + k < n
  <2>1. p = a + k /\ ~(p < k) /\ p - k = a
    BY <1>1
  <2>2. p < left \/ right < p \/ n - 1 - p = a
    BY <2>1
  <2> QED
    BY <2>1, <2>2 DEF CameFrom
<1>2. CASE ~(a + k < n)
  <2>1. p = a + k - n /\ p < k /\ n - k + p = a
    BY <1>2
  <2> QED
    BY <2>1 DEF CameFrom
<1> QED
  BY <1>1, <1>2

(* rotate moves every element k places further round, for arrays of every  *)
(* length and every k, also beyond the length.                             *)
THEOREM RotatesByK ==
    DataSpec => [](which = "arrays" /\ call.fn = "rotate" /\ ret # <<>> => Arr!IsResult(ret[1]))
<1>1. RotateInv /\ [DataNext]_<<which, vars, topicVars, ringVars, stackQueueVars, minVars, frameVars>> => RotateInv'
  <2> SUFFICES ASSUME RotateInv,
                      [DataNext]_<<which, vars, topicVars, ringVars, stackQueueVars, minVars, frameVars>>,
                      which' = "arrays", call'.fn = "rotate"
               PROVE  RotateInv'
    BY DEF RotateInv
  <2>1. which = "arrays"
    BY DEF DataNext, Call, Turn
  <2>2. /\ which' = which /\ call' = call
        /\ Arr!Next \/ UNCHANGED <<loc, ret>>
    BY <2>1, ArraysStepIs
  <2>3. CASE Arr!rotate
    BY <2>1, <2>2, <2>3, RotateStep
  <2>4. CASE UNCHANGED <<loc, ret>>
    BY <2>1, <2>2, <2>4 DEF RotateInv
  <2> QED
    BY <2>2, <2>3, <2>4 DEF Arr!Next, Arr!Runs, Arr!move_zeroes, Arr!min_sub_array_len, Arr!run
<1>2. RotateInv => (which = "arrays" /\ call.fn = "rotate" /\ ret # <<>> => Arr!IsResult(ret[1]))
  <2> SUFFICES ASSUME RotateInv, which = "arrays", call.fn = "rotate", ret # <<>>
               PROVE  Arr!IsResult(ret[1])
    OBVIOUS
  <2>1. PICK r, n, k : r = loc.nums /\ n = Len(call.nums) /\ k = call.k
    OBVIOUS
  <2>2. ret[1] = r /\ Len(r) = n /\ n \in Nat /\ k \in Nat /\ \A j \in 1..n : call.nums[j] = j
    BY <2>1 DEF RotateInv
  <2>3. ASSUME NEW j \in 1..n PROVE r[((j - 1 + k) % n) + 1] = call.nums[j]
    <3>1. n \in Nat \ {0} /\ j - 1 \in 0..(n - 1)
      BY <2>2
    <3>2. PICK b \in 0..(n - 1) : b = k % n
      BY <2>2, <3>1
    <3>3. PICK left, right : left = loc.left /\ right = loc.right /\ left >= right /\ Rotating(r, n, b, 3, left, right)
      BY <2>1, <2>2, <3>1, <3>2 DEF RotateInv
    <3>4. PICK p : p = (j - 1 + k) % n
      OBVIOUS
    <3>5. p = IF j - 1 + b < n THEN j - 1 + b ELSE j - 1 + b - n
      BY <2>2, <3>1, <3>2, <3>4, ModSum
    <3>6. p \in 0..(n - 1)
      BY <3>1, <3>5
    <3>7. r[p + 1] = CameFrom(n, b, 3, left, right, p) + 1
      BY <3>3, <3>6 DEF Rotating
    <3>8. left \in Int /\ right \in Int /\ left >= right /\ left <= right + 1 /\ left + right = n - 1 + b
      BY <3>3 DEF Rotating, Ends
    <3>9. CameFrom(n, b, 3, left, right, p) = j - 1
      <4>1. PICK a \in 0..(n - 1) : a = j - 1
        BY <3>1
      <4>2. p = IF a + b < n THEN a + b ELSE a + b - n
        BY <3>1, <3>2, <3>5, <4>1
      <4>3. CameFrom(n, b, 3, left, right, p) = a
        BY <3>1, <3>2, <3>8, <4>2, AllReversed
      <4> QED
        BY <4>1, <4>3
    <3>10. j - 1 + 1 = j /\ r[p + 1] = j - 1 + 1
      BY <3>7, <3>9
    <3>11. r[p + 1] = call.nums[j]
      BY <2>2, <3>10
    <3> QED
      BY <3>4, <3>11
  <2> QED
    BY <2>1, <2>2, <2>3 DEF Arr!IsResult, Arr!size
<1> QED
  BY <1>1, <1>2, RotateStarts, PTL DEF DataSpec

-----------------------------------------------------------------------------
(* topic_filter_match *)

Characters == {"a", "b", "/", "+", "#"}

Typed == filter \in Seq(Characters) /\ topic \in Seq(Characters)

(* topic_filter_match is right about every filter that was typed and every *)
(* topic, however long, but for topics that end in two empty levels.       *)
THEOREM FiltersMatch == DataSpec => []MatchesElsewhere
<1>1. DataInit => Typed
  BY DEF DataInit, Typed
<1>2. Typed /\ [DataNext]_<<which, vars, topicVars, ringVars, stackQueueVars, minVars, frameVars>> => Typed'
  <2> SUFFICES ASSUME Typed, [DataNext]_<<which, vars, topicVars, ringVars, stackQueueVars, minVars, frameVars>>
               PROVE  Typed'
    OBVIOUS
  <2>1. CASE TopicNext
    <3>1. ASSUME NEW ch \in Characters, NEW s \in Seq(Characters) PROVE Append(s, ch) \in Seq(Characters)
      OBVIOUS
    <3>2. ASSUME NEW ch \in {"a", "b", "/", "+", "#"}, TypeFilter(ch) PROVE Typed'
      <4>1. ch \in Characters
        BY DEF Characters
      <4> QED
        BY <3>1, <3>2, <4>1 DEF TypeFilter, Typed
    <3>3. ASSUME NEW ch \in {"a", "b", "/"}, TypeTopic(ch) PROVE Typed'
      <4>1. ch \in Characters
        BY DEF Characters
      <4> QED
        BY <3>1, <3>3, <4>1 DEF TypeTopic, Typed
    <3> QED
      BY <2>1, <3>2, <3>3 DEF TopicNext
  <2>2. CASE UNCHANGED topicVars
    BY <2>2 DEF topicVars, Typed
  <2> QED
    BY <2>1, <2>2 DEF DataNext
<1>3. Typed => MatchesElsewhere
  <2>1. NUL \notin Characters
    BY DEF NUL, Characters
  <2> QED
    BY <2>1, MatcherIsRight DEF Typed, MatchesElsewhere, MatchesAsDocumented
<1> QED
  BY <1>1, <1>2, <1>3, PTL DEF DataSpec
=============================================================================
