---------------------------- MODULE BinarySearch ----------------------------
(***************************************************************************)
(* array_simple_binary_search/solution.c over every sorted array of up to  *)
(* MaxKeys of the Keys.                                                    *)
(***************************************************************************)
EXTENDS Frame

CONSTANTS Keys, MaxKeys

ASSUME KeysAssumption == Keys \subseteq Int /\ MaxKeys \in Nat

Sorted(nums) == \A i, j \in 1..Len(nums) : i <= j => nums[i] <= nums[j]

SortedArrays == {nums \in UNION {[1..n -> Keys] : n \in 0..MaxKeys} : Sorted(nums)}

Searches == [fn : {"binary_search"}, nums : SortedArrays, target : Keys]

SearchEntry(c) == [left |-> 0, right |-> Len(c.nums) - 1]

SearchInit ==
    /\ call \in Searches
    /\ loc = SearchEntry(call)
    /\ ret = <<>>

(* nums is numbered from 0 in the code. *)
At(i) == call.nums[i + 1]

mid == loc.left + ((loc.right - loc.left) \div 2)

(* Mutant: the last element that remains is not looked at. *)
StopsEarly == loc.left < loc.right

Remains == loc.left <= loc.right

(* Mutant: the right half keeps the middle. *)
KeepsMid == loc' = [loc EXCEPT !.left = mid] /\ UNCHANGED <<call, ret>>

GoRight == Goes([loc EXCEPT !.left = mid + 1])

binary_search ==
    /\ Runs("binary_search")
    /\ \/ Remains /\ At(mid) = call.target /\ Returns(mid)
       \/ Remains /\ At(mid) < call.target /\ GoRight
       \/ Remains /\ At(mid) > call.target /\ Goes([loc EXCEPT !.right = mid - 1])
       \/ ~Remains /\ Returns(-1)

SearchSpec == SearchInit /\ [][binary_search]_frameVars

(* Whatever is returned is right: the index of the target, or -1 for one   *)
(* that is nowhere in the array (binary_search).                           *)
SearchIsRight ==
    call.fn = "binary_search" /\ ret # <<>> =>
        \/ ret[1] \in 0..(Len(call.nums) - 1) /\ At(ret[1]) = call.target
        \/ ret[1] = -1 /\ \A i \in 1..Len(call.nums) : call.nums[i] # call.target
=============================================================================
