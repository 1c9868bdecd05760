------------------------------ MODULE ListBook ------------------------------
(***************************************************************************)
(* lab6/task.c: a phonebook as a doubly linked list.  A step is an operation  *)
(* up to its first loop, one turn of a loop, or what follows it; the loops    *)
(* walk from node to node by pointers, and malloc may hand out a freed node   *)
(* again.  A number that scanf cannot read leaves the variable with any       *)
(* value: the inputs below are any values.                                    *)
(***************************************************************************)
EXTENDS Integers, Sequences, SequencesExt

CONSTANTS
    Nodes,   \* addresses malloc may return
    NULL,
    Names,   \* what searches look for
    All      \* print_all's choice of names

ASSUME BookAssumption == NULL \notin Nodes /\ All \notin Names

VARIABLES
    pc,          \* "menu", or the loop main is in
    head, tail, abonent_count,
    next, prev, name,   \* the fields of a node
    heap,        \* the nodes that are allocated
    current, i,  \* the loops' cursor and its index
    arg,         \* del_index, or the name to look for
    shown,       \* the indexes printed by a search
    order        \* history: the nodes in the order of the book

listVars == <<head, tail, abonent_count, next, prev, name, heap, order>>
loopVars == <<current, i, arg, shown>>
vars == <<pc, listVars, loopVars>>

Init ==
    /\ pc = "menu"
    /\ head = NULL /\ tail = NULL /\ abonent_count = 0
    /\ next = [n \in Nodes |-> NULL] /\ prev = [n \in Nodes |-> NULL]
    /\ name \in [Nodes -> Names]
    /\ heap = {} /\ order = << >>
    /\ current = NULL /\ i = 0 /\ arg = 0 /\ shown = << >>

\* malloc returns n; when it returns NULL, nothing changes.
AddAbonent(n, what) ==
    /\ pc = "menu"
    /\ n \notin heap
    /\ heap' = heap \cup {n}
    /\ name' = [name EXCEPT ![n] = what]
    /\ \/ /\ head = NULL
          /\ head' = n
          /\ next' = [next EXCEPT ![n] = NULL]
          /\ prev' = [prev EXCEPT ![n] = NULL]
       \/ /\ head # NULL
          /\ next' = [next EXCEPT ![n] = NULL, ![tail] = n]
          /\ prev' = [prev EXCEPT ![n] = tail]
          /\ UNCHANGED head
    /\ tail' = n
    /\ abonent_count' = abonent_count + 1
    /\ order' = Append(order, n)
    /\ UNCHANGED <<pc, loopVars>>

\* A loop starts at the head of the list.
Enter(loop, what) ==
    /\ pc = "menu"
    /\ pc' = loop
    /\ arg' = what
    /\ current' = head /\ i' = 0 /\ shown' = << >>
    /\ UNCHANGED listVars

DeleteAbonent(k) ==
    /\ head # NULL
    /\ 0 <= k /\ k < abonent_count
    /\ Enter("walk", k)

\* The loop turns once too often.
Mut_Walk ==
    /\ pc = "walk"
    /\ i <= arg
    /\ current' = next[current]
    /\ i' = i + 1
    /\ UNCHANGED <<pc, listVars, arg, shown>>

Walk ==
    /\ pc = "walk"
    /\ i < arg
    /\ current' = next[current]
    /\ i' = i + 1
    /\ UNCHANGED <<pc, listVars, arg, shown>>

\* Without the else branch for the last node.
Mut_Unlink ==
    /\ pc = "walk"
    /\ i = arg
    /\ IF prev[current] # NULL
       THEN next' = [next EXCEPT ![prev[current]] = next[current]] /\ UNCHANGED head
       ELSE head' = next[current] /\ UNCHANGED next
    /\ IF next[current] # NULL
       THEN prev' = [prev EXCEPT ![next[current]] = prev[current]]
       ELSE UNCHANGED prev
    /\ UNCHANGED tail
    /\ heap' = heap \ {current}
    /\ abonent_count' = abonent_count - 1
    /\ order' = RemoveAt(order, arg + 1)
    /\ pc' = "menu"
    /\ UNCHANGED <<name, loopVars>>

\* The node leaves the list and is freed.
Unlink ==
    /\ pc = "walk"
    /\ i = arg
    /\ IF prev[current] # NULL
       THEN next' = [next EXCEPT ![prev[current]] = next[current]] /\ UNCHANGED head
       ELSE head' = next[current] /\ UNCHANGED next
    /\ IF next[current] # NULL
       THEN prev' = [prev EXCEPT ![next[current]] = prev[current]] /\ UNCHANGED tail
       ELSE tail' = prev[current] /\ UNCHANGED prev
    /\ heap' = heap \ {current}
    /\ abonent_count' = abonent_count - 1
    /\ order' = RemoveAt(order, arg + 1)
    /\ pc' = "menu"
    /\ UNCHANGED <<name, loopVars>>

SearchByName(what) == Enter("search", what)

PrintAll == head # NULL /\ Enter("search", All)

Wanted(n) == arg = All \/ name[n] = arg

Look ==
    /\ pc = "search"
    /\ current # NULL
    /\ shown' = IF Wanted(current) THEN Append(shown, i) ELSE shown
    /\ current' = next[current]
    /\ i' = i + 1
    /\ UNCHANGED <<pc, listVars, arg>>

\* The loop is over; the cursor is a local variable.
SearchEnds ==
    /\ pc = "search"
    /\ current = NULL
    /\ pc' = "menu"
    /\ UNCHANGED <<listVars, loopVars>>

Exit == Enter("free", 0)

\* The cursor moves on before its node is freed.
FreeNode ==
    /\ pc = "free"
    /\ current # NULL
    /\ current' = next[current]
    /\ heap' = heap \ {current}
    /\ i' = i + 1
    /\ UNCHANGED <<pc, head, tail, abonent_count, next, prev, name, order, arg, shown>>

FreeEnds ==
    /\ pc = "free"
    /\ current = NULL
    /\ head' = NULL /\ tail' = NULL /\ abonent_count' = 0
    /\ order' = << >>
    /\ pc' = "exit"
    /\ UNCHANGED <<next, prev, name, heap, loopVars>>

Next ==
    \/ \E n \in Nodes, what \in Names : AddAbonent(n, what)
    \/ \E k \in -1 .. abonent_count : DeleteAbonent(k)
    \/ Walk \/ Unlink
    \/ \E what \in Names : SearchByName(what)
    \/ PrintAll \/ Look \/ SearchEnds
    \/ Exit \/ FreeNode \/ FreeEnds

Spec == Init /\ [][Next]_vars

-----------------------------------------------------------------------------
(* Properties.                                                              *)

\* order[k], or NULL before the first and behind the last.
Node(k) == IF k \in DOMAIN order THEN order[k] ELSE NULL

\* Forwards and backwards the pointers give the book in the order of its history,
\* through additions, and removals at either end or in the middle (task.c:41-48,
\* 87-97); head, tail, the count and the allocated nodes agree with it, so after
\* free_all nothing is left allocated.
ListShape ==
    /\ IsInjective(order)
    /\ abonent_count = Len(order)
    /\ head = Node(1) /\ tail = Node(Len(order))
    /\ \A k \in DOMAIN order : next[order[k]] = Node(k + 1) /\ prev[order[k]] = Node(k - 1)
    /\ heap = {order[k] : k \in (IF pc = "free" THEN i + 1 ELSE 1) .. Len(order)}

\* Every loop is at the node of its index, so it follows no freed pointer and a
\* removal takes the entry asked for; what a search has printed are the entries
\* wanted among those it passed (task.c:82-85, 114-124, 154-159).
LoopsFollowTheBook ==
    pc \in {"walk", "search", "free"} =>
        /\ current = Node(i + 1)
        /\ i <= Len(order) /\ (pc = "walk" => i <= arg /\ arg < Len(order))
        /\ pc = "search" =>
             /\ \A j, k \in DOMAIN shown : j < k => shown[j] < shown[k]
             /\ {shown[j] : j \in DOMAIN shown} =
                    {j \in 0 .. i - 1 : Wanted(order[j + 1])}
=============================================================================
