---------------------------- MODULE FileManager ----------------------------
(***************************************************************************)
(* lab9/task2.c: two panels that each show a directory.  Enter on an entry    *)
(* edits the panel's path as text; here a path is its names, after "/" or     *)
(* after the directory the program was started in.  Other programs make and   *)
(* remove directories meanwhile, and a panel shows what it has loaded last.   *)
(***************************************************************************)
EXTENDS Integers, Sequences, SequencesExt

CONSTANTS
    DirNames,      \* names directories may have
    FileNames,     \* names of files, which are in every directory
    MAX_ENTRIES,
    Depth          \* bound: names on the way from the root to a directory

\* A directory has finitely many entries, and what readdir() gives fits at least "..".
ASSUME FileAssumption ==
    /\ IsFiniteSet(DirNames) /\ DirNames # {} /\ IsFiniteSet(FileNames)
    /\ MAX_ENTRIES \in Nat \ {0}

Up == ".."
Panels == {"left", "right"}
AllDirs == SeqOf(DirNames, Depth)
Cwd == <<CHOOSE n \in DirNames : TRUE>>   \* where the program was started

VARIABLES
    screen,       \* "open" until the user quits
    active_panel,
    path,         \* of each panel: absolute or not, and its names
    entries,      \* names and kinds; their number is count_left, count_right
    selected,     \* from 1 on, and 1 when there is no entry
    dirs,         \* the directories there are
    locked,       \* those that opendir() refuses
    where         \* history: the directory the user has walked to

panelVars == <<active_panel, path, entries, selected, where>>
fileVars == <<screen, panelVars, dirs, locked>>

Dot == [absolute |-> FALSE, names |-> << >>]
Root == [absolute |-> TRUE, names |-> << >>]

\* The directory a path leads to.
Resolve(p) == IF p.absolute THEN p.names ELSE Cwd \o p.names

Children(d) ==
    {[name |-> n, is_dir |-> TRUE] : n \in {m \in DirNames : Append(d, m) \in dirs}}
        \cup {[name |-> n, is_dir |-> FALSE] : n \in FileNames}

Limited(s) == IF Len(s) > MAX_ENTRIES THEN SubSeq(s, 1, MAX_ENTRIES) ELSE s

\* load_directory: "..", then what readdir() gives, in any order, up to the limit; a
\* directory that cannot be opened gives no entry at all, not even "..".
Loaded(p) ==
    LET d == Resolve(p) IN
      IF d \notin dirs \/ d \in locked THEN {<< >>}
      ELSE {Limited(<<[name |-> Up, is_dir |-> TRUE]>> \o s) : s \in SetToSeqs(Children(d))}

FileInit ==
    /\ screen = "open" /\ active_panel = "left"
    /\ path = [s \in Panels |-> Dot]
    /\ dirs = {<< >>, Cwd} /\ locked = {}
    /\ entries \in [Panels -> Loaded(Dot)]
    /\ selected = [s \in Panels |-> 1]
    /\ where = [s \in Panels |-> Cwd]

KeyUp ==
    /\ screen = "open"
    /\ selected[active_panel] > 1
    /\ selected' = [selected EXCEPT ![active_panel] = @ - 1]
    /\ UNCHANGED <<screen, active_panel, path, entries, where, dirs, locked>>

KeyDown ==
    /\ screen = "open"
    /\ selected[active_panel] < Len(entries[active_panel])
    /\ selected' = [selected EXCEPT ![active_panel] = @ + 1]
    /\ UNCHANGED <<screen, active_panel, path, entries, where, dirs, locked>>

Tab ==
    /\ screen = "open"
    /\ active_panel' = IF active_panel = "left" THEN "right" ELSE "left"
    /\ UNCHANGED <<screen, path, entries, selected, where, dirs, locked>>

\* Above "." there is nothing: getcwd() is not asked.
Mut_Parent(p) == IF p.names = << >> THEN p ELSE [p EXCEPT !.names = Front(@)]

\* The path above: its last name is cut off at the slash, or is the whole of it;
\* "." becomes what getcwd() says, without its last name.
Parent(p) ==
    IF p.names # << >> THEN [p EXCEPT !.names = Front(@)]
    ELSE IF p = Root THEN Root
    ELSE [absolute |-> TRUE, names |-> Front(Cwd)]

\* The new path is loaded and its first entry selected.
Show(s, p) ==
    /\ path' = [path EXCEPT ![s] = p]
    /\ \E list \in Loaded(p) : entries' = [entries EXCEPT ![s] = list]
    /\ selected' = [selected EXCEPT ![s] = 1]

\* change_directory; Enter on a file, or in a panel without entries, does nothing.
ChangeDirectory ==
    /\ screen = "open"
    /\ LET s == active_panel IN
         /\ entries[s] # << >>
         /\ LET entry == entries[s][selected[s]] IN
              \/ /\ entry.name = Up
                 /\ Show(s, Parent(path[s]))
                 /\ where' = [where EXCEPT ![s] = IF @ = << >> THEN @ ELSE Front(@)]
              \/ /\ entry.name # Up /\ entry.is_dir
                 /\ Show(s, [path[s] EXCEPT !.names = Append(@, entry.name)])
                 /\ where' = [where EXCEPT ![s] = Append(@, entry.name)]
    /\ UNCHANGED <<screen, active_panel, dirs, locked>>

QuitKey ==
    /\ screen = "open"
    /\ screen' = "closed"
    /\ UNCHANGED <<panelVars, dirs, locked>>

\* Other programs: a directory is made, removed with nothing in it, or locked.
OtherPrograms ==
    /\ screen = "open"
    /\ \/ /\ \E d \in AllDirs \ dirs : Front(d) \in dirs /\ dirs' = dirs \cup {d}
          /\ UNCHANGED locked
       \/ /\ \E d \in dirs \ {<< >>, Cwd} :
               /\ \A e \in dirs : ~ IsStrictPrefix(d, e)
               /\ dirs' = dirs \ {d} /\ locked' = locked \ {d}
       \/ /\ \E d \in dirs \ locked : locked' = locked \cup {d}
          /\ UNCHANGED dirs
    /\ UNCHANGED <<screen, panelVars>>

FileNext ==
    \/ KeyUp \/ KeyDown \/ Tab \/ ChangeDirectory \/ QuitKey
    \/ OtherPrograms

FileSpec == FileInit /\ [][FileNext]_fileVars

-----------------------------------------------------------------------------
(* Properties.                                                              *)

\* However the user goes down and up, by relative and by absolute paths, over the
\* starting directory and to the root, the text of the path leads to where the walk
\* has led (task2.c:84-135), although the directories change meanwhile; and the
\* selection is at an entry of the list that was loaded for it.
PathFollowsTheWalk ==
    \A s \in Panels :
        /\ Resolve(path[s]) = where[s]
        /\ selected[s] = 1 \/ selected[s] \in DOMAIN entries[s]
        /\ entries[s] # << >> => entries[s][1].name = Up
=============================================================================
