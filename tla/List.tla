-------------------------------- MODULE List --------------------------------
(***************************************************************************)
(* The linked list of utils/list.c, with the operations the program uses:  *)
(* tpool.c keeps its tasks in one, and only pushes and takes from the      *)
(* left.  A list is a record; its nodes are the cells of a memory, linked  *)
(* by next.  The operations return the list they leave; those that copy a  *)
(* value out leave that to List_first.                                     *)
(*                                                                         *)
(* List_append, List_add, List_del and List_pop have no caller in src/.    *)
(***************************************************************************)
EXTENDS Integers, Sequences

CONSTANTS Addr,   \* the addresses malloc can return
          Null    \* none of them

\* List_new: no node; a free cell holds nothing.
List_new == [length |-> 0, head |-> Null, tail |-> Null,
             next |-> [a \in Addr \cup {Null} |-> Null],
             data |-> [a \in Addr \cup {Null} |-> Null]]

Allocated(list) == {a \in Addr : list.data[a] # Null}

\* free of a node: its contents are gone.
Release(list, p) == [list EXCEPT !.next[p] = Null, !.data[p] = Null]

\* The nodes a walk over length nodes from the head passes.
Walk(list) ==
    LET node[i \in 1..list.length] ==
            IF i = 1 THEN list.head ELSE list.next[node[i - 1]]
    IN  node

\* What the list holds, from the head on.
Content(list) == [i \in 1..list.length |-> list.data[Walk(list)[i]]]

List_empty(list) == list.length = 0

\* Faulty: the tail stays where it was.
List_pushKeepsTail(list, data) ==
    LET p == CHOOSE a \in Addr \ Allocated(list) : TRUE
    IN  [list EXCEPT !.data[p] = data,
                     !.head = IF list.length = 0 THEN p ELSE @,
                     !.next = IF list.length = 0 THEN @
                              ELSE [@ EXCEPT ![list.tail] = p],
                     !.tail = IF list.length = 0 THEN p ELSE @,
                     !.length = @ + 1]

\* List_push: the node becomes the head of an empty list, and otherwise the
\* next of the tail; it is the tail in both cases.
List_push(list, data) ==
    LET p == CHOOSE a \in Addr \ Allocated(list) : TRUE
    IN  [list EXCEPT !.data[p] = data,
                     !.head = IF list.length = 0 THEN p ELSE @,
                     !.next = IF list.length = 0 THEN @
                              ELSE [@ EXCEPT ![list.tail] = p],
                     !.tail = p,
                     !.length = @ + 1]

\* The value List_popleft copies out.
List_first(list) == list.data[list.head]

\* List_popleft of a list that is not empty: the last node takes both ends
\* with it.
List_popleft(list) ==
    [Release(list, list.head) EXCEPT
        !.head = IF list.length = 1 THEN Null ELSE list.next[list.head],
        !.tail = IF list.length = 1 THEN Null ELSE @,
        !.length = @ - 1]

\* List_free: the nodes are released from the head on, length of them.
List_free(list) ==
    LET reached == {Walk(list)[i] : i \in 1..list.length}
        Kept(f) == [a \in DOMAIN f |-> IF a \in reached THEN Null ELSE f[a]]
    IN  [list EXCEPT !.next = Kept(@), !.data = Kept(@), !.length = 0]
=============================================================================
