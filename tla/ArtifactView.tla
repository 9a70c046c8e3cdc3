---------------------------- MODULE ArtifactView ----------------------------
(***************************************************************************)
(* The artifacts of a work item, listed while its run still writes them    *)
(* (_artifact_files in src/agent_os/http_service.py): the tree is scanned  *)
(* first and its files are read afterwards, each by its path and without   *)
(* following links, while files and directories come, go and are replaced. *)
(***************************************************************************)
EXTENDS FiniteSets

CONSTANTS
    Directory,  \* a subdirectory of artifacts/
    Loose,      \* names of files in artifacts/ itself
    Nested      \* names of files in the subdirectory

VARIABLES
    kind,      \* what each name leads to: nothing, a file, a directory, a link
    stage,     \* where the request is
    handle,    \* the subdirectory it holds open: none, the tree's own, a foreign one
    names,     \* regular files that the scan found
    returned,  \* what was read: name and whose content
    steady     \* names that were regular files all the time, for the properties

requestVars == <<stage, handle, names, returned>>

Files == Loose \cup Nested
Entries == Files \cup {Directory}
Kinds == {"absent", "file", "directory", "link"}

TypeOK ==
    /\ kind \in [Entries -> Kinds]
    /\ stage \in {"scan", "descend", "within", "read", "listed", "refused"}
    /\ handle \in {"none", "own", "foreign"}
    /\ names \subseteq Files
    /\ returned \subseteq Files \X {"own", "foreign"}
    /\ steady \subseteq Files

\* A path leads to a regular file of the tree.
Regular(f) == kind[f] = "file" /\ (f \in Nested => kind[Directory] = "directory")

Request ==
    /\ stage' = "scan" /\ handle' = "none"
    /\ names' = {} /\ returned' = {}
    /\ steady' = {f \in Files : Regular(f)}

Init ==
    /\ kind = [e \in Entries |-> "absent"]
    /\ stage = "scan" /\ handle = "none"
    /\ names = {} /\ returned = {}
    /\ steady = {}

\* The run replaces an entry. What is in the subdirectory stays in it, whatever its
\* name leads to; behind a link there is a tree of others.
Replace(e, k) ==
    /\ k # kind[e] /\ (e \in Files => k # "directory")
    /\ kind' = [kind EXCEPT ![e] = k]
    /\ steady' = IF e = Directory THEN steady \ Nested ELSE steady \ {e}
    /\ UNCHANGED requestVars

-----------------------------------------------------------------------------
(* _artifact_files.                                                        *)

Refuse == stage' = "refused" /\ UNCHANGED <<kind, handle, names, returned, steady>>

\* scandir of artifacts/, which must be a directory of the workspace itself. What
\* an entry is, it is at this moment; a link is passed over.
ScanTop ==
    /\ stage = "scan"
    /\ \/ /\ names' = {f \in Loose : kind[f] = "file"}
          /\ stage' = IF kind[Directory] = "directory" THEN "descend" ELSE "read"
          /\ UNCHANGED <<kind, handle, returned, steady>>
       \/ Refuse

\* os.open with O_NOFOLLOW, and what it is asked to be: whose object is opened.
OpenedFollowing(k, wanted) ==
    CASE k = wanted -> "own" [] k = "link" -> "foreign" [] OTHER -> "refused"
Opened(k, wanted) == IF k = wanted THEN "own" ELSE "refused"

Descend ==
    /\ stage = "descend"
    /\ IF Opened(kind[Directory], "directory") # "refused"
       THEN stage' = "within" /\ UNCHANGED <<kind, handle, names, returned, steady>>
       ELSE Refuse

ScanWithin ==
    /\ stage = "within"
    /\ names' = names \cup {f \in Nested : kind[f] = "file"}
    /\ stage' = "read"
    /\ UNCHANGED <<kind, handle, returned, steady>>

Read == {r[1] : r \in returned}
Unread == names \ Read

\* _read_regular_descendant: the directory of the path is opened, then the file in
\* it, whatever the name of the directory leads to by then.
OpenParent ==
    LET opened == Opened(kind[Directory], "directory") IN
    /\ stage = "read" /\ Unread \cap Nested # {} /\ handle = "none"
    /\ IF opened # "refused"
       THEN handle' = opened /\ UNCHANGED <<kind, stage, names, returned, steady>>
       ELSE Refuse

Fetch(f) ==
    LET opened == Opened(kind[f], "file") IN
    /\ stage = "read" /\ f \in Unread
    /\ f \in Nested <=> handle # "none"
    /\ IF opened # "refused"
       THEN /\ returned' = returned \cup
                 {<<f, IF handle = "foreign" THEN "foreign" ELSE opened>>}
            /\ handle' = "none"
            /\ UNCHANGED <<kind, stage, names, steady>>
       ELSE Refuse

Listed ==
    /\ stage = "read" /\ Unread = {}
    /\ stage' = "listed"
    /\ UNCHANGED <<kind, handle, names, returned, steady>>

\* The response is sent, and asked for again.
AskAgain ==
    /\ stage \in {"listed", "refused"}
    /\ Request
    /\ UNCHANGED kind

Next ==
    \/ \E e \in Entries, k \in Kinds : Replace(e, k)
    \/ ScanTop \/ Descend \/ ScanWithin
    \/ OpenParent \/ \E f \in Files : Fetch(f)
    \/ Listed \/ AskAgain

-----------------------------------------------------------------------------
(* Properties.                                                             *)

\* http-service.md: symlinks are never followed. What is returned is the content of
\* a file of the tree, although it was a file when it was scanned and is opened by
\* its name later.
LinksAreNeverFollowed == \A r \in returned : r[2] = "own"

\* A listing leaves out no file that was there, as a regular file, all the time.
SteadyFilesAreListed == stage = "listed" => steady \subseteq Read
=============================================================================
