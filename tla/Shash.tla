------------------------------- MODULE Shash -------------------------------
(***************************************************************************)
(* The hash table of utils/shash.c, which holds the words of the spam      *)
(* filter.  A table is a function from bucket indices to lists of words, a *)
(* node is a place in such a list.  The cursor of Shash_walk is with the   *)
(* threads that move it, in module Spam.  Shash_del has no caller.         *)
(***************************************************************************)
EXTENDS Integers, Sequences, SequencesExt

CONSTANTS Words,
          Size,    \* the number of buckets, hash->len
          Hash,    \* str_hash, modulo that number
          NULL

Shash_new == [i \in 0..Size - 1 |-> << >>]

\* Shash_insert: at the front of its bucket, whether it is there or not.
Shash_insert(table, word) == [table EXCEPT ![Hash[word]] = <<word>> \o @]

\* The nodes of a table.
Places(table) == UNION {{i} \X (1..Len(table[i])) : i \in 0..Size - 1}

\* Shash_find, as far as its callers tell: is there a node with the word?
Shash_find(table, word) == word \in Range(table[Hash[word]])

\* The words of a sequence are inserted one after the other; if once, only those
\* that are not there.
Inserted(table, words, once) ==
    LET after[n \in 0..Len(words)] ==
            IF n = 0 THEN table
            ELSE IF once /\ Shash_find(after[n - 1], words[n]) THEN after[n - 1]
            ELSE Shash_insert(after[n - 1], words[n])
    IN  after[Len(words)]

\* Where a node is after insertions in front of it.
Moved(before, after, node) ==
    IF node = NULL THEN NULL
    ELSE <<node[1], node[2] + Len(after[node[1]]) - Len(before[node[1]])>>

KeyOf(table, node) == table[node[1]][node[2]]

\* bucket->list and node->next.
ListOf(table, i) == IF table[i] = << >> THEN NULL ELSE <<i, 1>>
NextOf(table, node) ==
    IF node[2] = Len(table[node[1]]) THEN NULL ELSE <<node[1], node[2] + 1>>

\* What a walk that nobody disturbs returns from a cursor on: the nodes behind
\* the current one, then the buckets after the index.
Remaining(table, index, node) ==
    (IF node = NULL THEN << >>
     ELSE SubSeq(table[node[1]], node[2] + 1, Len(table[node[1]])))
    \o FlattenSeq([k \in 1..Size |-> IF k - 1 > index THEN table[k - 1] ELSE << >>])

\* All words, bucket by bucket.
Entries(table) == Remaining(table, -1, NULL)
=============================================================================
