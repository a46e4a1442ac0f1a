------------------------------ MODULE RustData ------------------------------
(***************************************************************************)
(* Operations of the Rust library, as recursive functions and plain        *)
(* functions that can be reasoned about (DataLemmas).                      *)
(***************************************************************************)
EXTENDS Integers, Sequences

\* Iterator::filter: the elements of s that are in K, in their order.
Among(s, K) ==
    LET kept[n \in 0..Len(s)] ==
            IF n = 0 THEN <<>>
            ELSE IF s[n] \in K THEN Append(kept[n - 1], s[n]) ELSE kept[n - 1]
    IN  kept[Len(s)]

\* Iterator::flatten: the sequences of ss, one after the other.
Flat(ss) ==
    LET joined[n \in 0..Len(ss)] == IF n = 0 THEN <<>> ELSE joined[n - 1] \o ss[n]
    IN  joined[Len(ss)]

\* HashMap::insert: what was there under the key is replaced.
Put(map, key, value) == [k \in DOMAIN map \cup {key} |-> IF k = key THEN value ELSE map[k]]

\* What map has, and what more has besides.
Joined(map, more) ==
    [k \in DOMAIN map \cup DOMAIN more |-> IF k \in DOMAIN map THEN map[k] ELSE more[k]]
=============================================================================
