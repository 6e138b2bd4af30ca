--------------------------- MODULE AtomicTransfer ---------------------------
(***************************************************************************)
(* What a migration archive promises to those who use it: the files of an  *)
(* archive were taken at one moment, an archive appears whole at its path, *)
(* and a destination appears once and is the whole of an archive.          *)
(*                                                                         *)
(* Transfer implements this module with files that are read, checked,      *)
(* written and staged one at a time; OperationalBackup builds on it.  The  *)
(* empty tree stands for "nothing": no archive is empty.                   *)
(***************************************************************************)
CONSTANTS
    File,           \* the files that may be archived
    Content,        \* what a file may hold
    Absent,         \* no such file
    Packager,       \* processes that make archives
    Restorer        \* processes that restore them

VARIABLES
    disk,           \* the source files
    taken,          \* what each packager has taken and not published
    archive,        \* the archive at the path
    held,           \* the archive that each restorer is restoring
    destination     \* the restored directory

vars == <<disk, taken, archive, held, destination>>

Nothing == <<>>

Init ==
    /\ disk \in [File -> Content \cup {Absent}]
    /\ taken = [p \in Packager |-> Nothing]
    /\ archive = Nothing
    /\ held = [r \in Restorer |-> Nothing]
    /\ destination = Nothing

\* A program writes, creates or deletes a file.
Write(f, c) ==
    /\ disk' = [disk EXCEPT ![f] = c]
    /\ UNCHANGED <<taken, archive, held, destination>>

\* All the files at one moment.
Take(p, files) ==
    /\ taken[p] = Nothing
    /\ files # {} /\ \A f \in files : disk[f] # Absent
    /\ taken' = [taken EXCEPT ![p] = [f \in files |-> disk[f]]]
    /\ UNCHANGED <<disk, archive, held, destination>>

Publish(p) ==
    /\ taken[p] # Nothing
    /\ archive' = taken[p]
    /\ taken' = [taken EXCEPT ![p] = Nothing]
    /\ UNCHANGED <<disk, held, destination>>

Drop(p) ==
    /\ taken' = [taken EXCEPT ![p] = Nothing]
    /\ UNCHANGED <<disk, archive, held, destination>>

\* A restorer decides on the archive that is there.
Hold(r) ==
    /\ held[r] = Nothing
    /\ archive # Nothing /\ destination = Nothing
    /\ held' = [held EXCEPT ![r] = archive]
    /\ UNCHANGED <<disk, taken, archive, destination>>

\* All of what it decided on, although another archive may be there by now.
Put(r) ==
    /\ held[r] # Nothing /\ destination = Nothing
    /\ destination' = held[r]
    /\ held' = [held EXCEPT ![r] = Nothing]
    /\ UNCHANGED <<disk, taken, archive>>

LetGo(r) ==
    /\ held' = [held EXCEPT ![r] = Nothing]
    /\ UNCHANGED <<disk, taken, archive, destination>>

Next ==
    \/ \E f \in File, c \in Content \cup {Absent} : Write(f, c)
    \/ \E p \in Packager :
           Publish(p) \/ Drop(p) \/ \E files \in SUBSET File : Take(p, files)
    \/ \E r \in Restorer : Hold(r) \/ Put(r) \/ LetGo(r)

Spec == Init /\ [][Next]_vars
=============================================================================
