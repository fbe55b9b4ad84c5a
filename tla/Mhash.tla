------------------------------- MODULE Mhash -------------------------------
(***************************************************************************)
(* The hash table of utils/mhash.c, from the four-tuple of a connection to *)
(* its node.  A table is a function from bucket indices to the lists of    *)
(* their nodes, the first node of a list first.  Each analysis thread has  *)
(* a table of its own, which nobody else touches.                          *)
(***************************************************************************)
EXTENDS Integers, Sequences, SequencesExt

CONSTANTS Tuples,   \* struct tuple4
          Hash      \* tuple4_hash, modulo the number of buckets

Mhash_new == [i \in {Hash[t] : t \in Tuples} |-> << >>]

\* The places of a bucket whose node has the key.
At(bucket, key) == {i \in DOMAIN bucket : bucket[i].key = key}
First(S) == CHOOSE i \in S : \A j \in S : i <= j

Mhash_has(hash, key) == At(hash[Hash[key]], key) # {}

\* Mhash_find: the first node of the bucket with the key.
Mhash_find(hash, key) == LET bucket == hash[Hash[key]]
                         IN  bucket[First(At(bucket, key))]

\* Mhash_insert: at the front of the bucket.  The caller names the bucket,
\* because the code computes it from a tuple it reads a second time.
Mhash_insert(hash, index, node) == [hash EXCEPT ![index] = <<node>> \o @]

\* Faulty: only the first node of a bucket is compared.
Mhash_delFirstOnly(hash, key) ==
    [hash EXCEPT ![Hash[key]] =
        IF @ # << >> /\ @[1].key = key THEN Tail(@) ELSE @]

\* Mhash_del: the first node with the key goes back to the pool.
Mhash_del(hash, key) ==
    [hash EXCEPT ![Hash[key]] =
        IF At(@, key) = {} THEN @ ELSE RemoveAt(@, First(At(@, key)))]

\* The nodes of the table.
Entries(hash) == UNION {Range(hash[i]) : i \in DOMAIN hash}
=============================================================================
