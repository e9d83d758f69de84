----------------------------- MODULE BurnFolder -----------------------------
(***************************************************************************)
(* CDBurner: the list of the files to burn and the folder they are copied    *)
(* to.  Files of one name from two places get different names by " (new)".  *)
(*                                                                         *)
(* A name is its stem, how many " (new)" were put before its last dot, and  *)
(* whether it has a dot.  A list is kept with the paths in another list, by *)
(* index; the window that keeps both is not part of the repository.         *)
(***************************************************************************)
EXTENDS Naturals, Sequences, SequencesExt

CONSTANTS
    Paths,
    Stems,
    NameOf,         \* the last component of a path
    Dotted,         \* stems of names with a dot
    Same(_, _),     \* names that the file system takes for one
    MaxFiles

FileNames == [stem : Stems, new : Nat]

VARIABLES
    filesName, filesPath,
    folder,         \* to_burn: the file of each name in it, or what is not there
    thrown          \* an exception left addFileNames, or createFolderToBurn since

vars == <<filesName, filesPath, folder, thrown>>

Init == filesName = <<>> /\ filesPath = <<>> /\ folder = {} /\ thrown = FALSE

\* Mutant: one " (new)" has to be enough.
UniqueOnce(final, name) ==
    IF Contains(final, name) THEN [name EXCEPT !.new = @ + 1] ELSE name

(* The loop adds " (new)" until the name is not in the list, which it is    *)
(* not after as many attempts as the list has names, and one.               *)
Unique(final, name) ==
    LET with(n) == [name EXCEPT !.new = n]
    IN  with(CHOOSE n \in name.new..(name.new + Len(final)) :
                ~ Contains(final, with(n)) /\ \A k \in name.new..(n - 1) : Contains(final, with(k)))

(* substringToIndex throws for a name without a dot that is there already.  *)
Throws(final, name) == name.stem \notin Dotted /\ Contains(final, name)

(* addFileNames is given the names of a choice of files, and appends.       *)
AddFileNames(final, newFiles) ==
    LET added[k \in 0..Len(newFiles)] ==
            IF k = 0 THEN [names |-> final, thrown |-> FALSE]
            ELSE LET names == added[k - 1].names
                     thrownNow == added[k - 1].thrown \/ Throws(names, newFiles[k])
                 IN  [names |-> IF thrownNow THEN names ELSE Append(names, Unique(names, newFiles[k])),
                      thrown |-> thrownNow]
    IN  added[Len(newFiles)]

(* A panel chooses different files; getFilesName, addFileNames and then     *)
(* getFilesPath.  An exception is the end of the choice, not of the program: *)
(* the run loop of a window goes on.                                        *)
AddFiles(files) ==
    /\ LET added == AddFileNames(filesName, [i \in 1..Len(files) |-> NameOf[files[i]]])
       IN  /\ filesName' = added.names
           /\ thrown' = (thrown \/ added.thrown)
           /\ filesPath' = IF added.thrown THEN filesPath ELSE filesPath \o files
    /\ UNCHANGED folder

EraseBurnFolder == folder' = {} /\ UNCHANGED <<filesName, filesPath, thrown>>

(* copyItemAtPath fails where there is a file already; the loop goes on, to *)
(* the last name or to the exception for a name without a path.             *)
Copied(files, name, path) ==
    IF \E f \in files : Same(f.name, name) THEN files
    ELSE files \cup {[name |-> name, path |-> path]}

CreateFolderToBurn ==
    /\ LET n == IF Len(filesPath) < Len(filesName) THEN Len(filesPath) ELSE Len(filesName)
           copied[i \in 0..n] ==
               IF i = 0 THEN folder ELSE Copied(copied[i - 1], filesName[i], filesPath[i])
       IN  folder' = copied[n]
    /\ thrown' = (thrown \/ Len(filesPath) < Len(filesName))
    /\ UNCHANGED <<filesName, filesPath>>

Next ==
    \/ \E n \in 1..(MaxFiles - Len(filesName)) : \E files \in [1..n -> Paths] :
           IsInjective(files) /\ AddFiles(files)
    \/ EraseBurnFolder
    \/ CreateFolderToBurn

Spec == Init /\ [][Next]_vars

-----------------------------------------------------------------------------
(* Properties *)

(* No two files get one name, however many have it (addFileNames).          *)
NamesDistinct == IsInjective(filesName)

(* A name belongs to the path at its index: it is that of the file, but for *)
(* " (new)" (addFileNames keeps the order and drops nothing).  An exception *)
(* has left names without a path, and the later ones beside wrong ones.     *)
NamesBelongToPaths ==
    ~ thrown => /\ Len(filesName) = Len(filesPath)
                /\ \A i \in 1..Len(filesName) :
                       /\ filesName[i].stem = NameOf[filesPath[i]].stem
                       /\ filesName[i].new >= NameOf[filesPath[i]].new

(* A file in the folder has the content of a file of the list, under its    *)
(* name, and stays until the folder is erased (createFolderToBurn).         *)
FolderHasTheList ==
    \A f \in folder : \E i \in 1..Len(filesPath) : f = [name |-> filesName[i], path |-> filesPath[i]]

(* The list of names and the folder stand for the files that were chosen.   *)
NamesTrue == NamesDistinct /\ NamesBelongToPaths /\ FolderHasTheList
=============================================================================
