------------------------------ MODULE GoSlice ------------------------------
(***************************************************************************)
(* Go slices, as far as this program shares them between goroutines: a     *)
(* slice is a header [array, len] for a prefix of a backing array, and     *)
(* append writes in place while the capacity lasts.  Arrays live in a      *)
(* memory mem, a sequence of arrays that only grows; array 0 has capacity  *)
(* 0.  Positions count from 1.                                             *)
(***************************************************************************)
LOCAL INSTANCE Naturals
LOCAL INSTANCE Sequences

CONSTANT Nil     \* the content of a cell that was never written

EmptySlice == [array |-> 0, len |-> 0]

Capacity(mem, s) == IF s.array = 0 THEN 0 ELSE Len(mem[s.array])

Elem(mem, s, i) == mem[s.array][i]

Elems(mem, s) == {Elem(mem, s, i) : i \in 1..s.len}

HasRoom(mem, s) == s.len < Capacity(mem, s)

\* The header, and the memory, after append(s, x): in place, or into a new
\* array of twice the capacity.
Appended(mem, s, x) ==
    [array |-> IF HasRoom(mem, s) THEN s.array ELSE Len(mem) + 1,
     len   |-> s.len + 1]

MemAppended(mem, s, x) ==
    IF HasRoom(mem, s)
    THEN [mem EXCEPT ![s.array][s.len + 1] = x]
    ELSE LET cap == IF s.len = 0 THEN 1 ELSE 2 * s.len
         IN Append(mem, [i \in 1..cap |-> IF i <= s.len THEN Elem(mem, s, i)
                                          ELSE IF i = s.len + 1 THEN x
                                          ELSE Nil])

\* The memory after append(s[:i-1], s[i:]...) in Go's terms: the cells after
\* position i move down by one and the last one keeps its content.
MemRemoved(mem, s, i) ==
    [mem EXCEPT ![s.array] =
        [j \in DOMAIN @ |-> IF j \in i..(s.len - 1) THEN @[j + 1] ELSE @[j]]]
=============================================================================
