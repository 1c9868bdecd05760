----------------------------- MODULE ArrayBook -----------------------------
(***************************************************************************)
(* lab4/task.c (lab5/task.c is the same text): the phonebook as an array.  An *)
(* entry is known by how many of its three fields are filled, 0 is an empty   *)
(* one.  The results of scanf() are not looked at: at the end of the input,   *)
(* or at a word where a number should be, a variable keeps what it held.      *)
(***************************************************************************)
EXTENDS Integers, FiniteSets

CONSTANT MAX_ABONENTS   \* 100 in the code

ASSUME ArrayAssumption == MAX_ABONENTS \in Nat \ {0}

Index == 0 .. MAX_ABONENTS - 1

VARIABLES
    at_menu,     \* main is about to read the choice; or has read it, and after 5 returns
    choice,
    phonebook,   \* fields filled, of each entry
    entry_count, \* abonent_count
    input        \* "text"; "word": one that is no number is next; or "ended"

bookVars == <<at_menu, choice, phonebook, entry_count, input>>

Used == {k \in Index : phonebook[k] > 0}
Empty == Index \ Used

ArrayInit ==
    /\ at_menu = TRUE
    /\ choice \in 0 .. 5
    /\ phonebook = [k \in Index |-> 0]
    /\ entry_count = 0
    /\ input = "text"

\* scanf("%d") into the variable's own place: a word stays in the input.
ReadChoice ==
    /\ at_menu
    /\ \/ input = "text" /\ choice' \in 0 .. 5 /\ UNCHANGED input
       \/ input = "text" /\ input' \in {"word", "ended"} /\ UNCHANGED choice
       \/ input # "text" /\ UNCHANGED <<choice, input>>
    /\ at_menu' = FALSE
    /\ UNCHANGED <<phonebook, entry_count>>

Chosen(c) == ~ at_menu /\ choice = c /\ at_menu' = TRUE /\ UNCHANGED choice

\* The fields three times scanf("%9s") can fill, and what is then left to read; a
\* word that was no number is taken for a name.
ReadFields(n) ==
    \/ input # "ended" /\ n = 3 /\ input' = "text"
    \/ input # "ended" /\ n < 3 /\ (input = "word" => n > 0) /\ input' = "ended"
    \/ input = "ended" /\ n = 0 /\ UNCHANGED input

AddEntry ==
    /\ Chosen(1)
    /\ \/ /\ entry_count >= MAX_ABONENTS \/ Empty = {}
          /\ UNCHANGED <<phonebook, entry_count, input>>
       \/ /\ entry_count < MAX_ABONENTS
          /\ \E k \in Empty, n \in 0 .. 3 :
               /\ \A e \in Empty : k <= e
               /\ ReadFields(n)
               /\ phonebook' = [phonebook EXCEPT ![k] = n]
          /\ entry_count' = entry_count + 1

\* An empty entry is not refused.
Mut_DeleteEntry ==
    /\ Chosen(2)
    /\ \/ /\ entry_count = 0
          /\ UNCHANGED <<phonebook, entry_count, input>>
       \/ /\ entry_count > 0
          /\ \E index \in -1 .. MAX_ABONENTS :
               IF index \in Index
               THEN /\ phonebook' = [phonebook EXCEPT ![index] = 0]
                    /\ entry_count' = entry_count - 1
               ELSE UNCHANGED <<phonebook, entry_count>>
          /\ input' \in IF input = "text" THEN {"text", "word", "ended"} ELSE {input}

\* The index is any number, read or left over on the stack.
DeleteEntry ==
    /\ Chosen(2)
    /\ \/ /\ entry_count = 0
          /\ UNCHANGED <<phonebook, entry_count, input>>
       \/ /\ entry_count > 0
          /\ \E index \in -1 .. MAX_ABONENTS :
               IF index \in Used
               THEN /\ phonebook' = [phonebook EXCEPT ![index] = 0]
                    /\ entry_count' = entry_count - 1
               ELSE UNCHANGED <<phonebook, entry_count>>
          /\ input' \in IF input = "text" THEN {"text", "word", "ended"} ELSE {input}

\* The name to look for is read, the book is not changed.
SearchEntries ==
    /\ Chosen(3)
    /\ \/ input # "ended" /\ input' = "text"
       \/ input # "word" /\ input' = "ended"
    /\ UNCHANGED <<phonebook, entry_count>>

\* print_all, and a choice that is none.
PrintEntries ==
    /\ Chosen(0) \/ Chosen(4)
    /\ UNCHANGED <<phonebook, entry_count, input>>

ArrayNext == ReadChoice \/ AddEntry \/ DeleteEntry \/ SearchEntries \/ PrintEntries

ArraySpec == ArrayInit /\ [][ArrayNext]_bookVars

-----------------------------------------------------------------------------
(* Properties.                                                              *)

\* abonent_count is the number of entries in use, whatever is deleted, refused or
\* mistyped, so that an addition which is not refused finds a place (task.c:29-51),
\* until the input has ended: from then on each addition counts an entry that stays
\* empty, the count only ever exceeds the book, and never its size.
CountCoversTheBook ==
    /\ Cardinality(Used) <= entry_count /\ entry_count <= MAX_ABONENTS
    /\ input # "ended" => entry_count = Cardinality(Used)
=============================================================================
