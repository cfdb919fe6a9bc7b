------------------------------ MODULE Adapter ------------------------------
(***************************************************************************)
(* What context_compaction/adapters.py makes of a tool call: its class,    *)
(* and the source file its result is evidence of.  The names of tools and  *)
(* the words of shell commands are grouped by what the adapter tells apart.*)
(***************************************************************************)
EXTENDS Naturals, Sequences

CONSTANTS
    Paths,          \* words that name a file or directory
    Inside,         \* those that resolve below the repository root
    Patterns,       \* those with a wildcard
    NoPath

ASSUME PathsAssumption ==
    /\ Inside \subseteq Paths
    /\ Patterns \subseteq Paths
    /\ NoPath \notin Paths

-----------------------------------------------------------------------------
(* Tools, by the set of names they are in.  "search" stands for Grep, Glob *)
(* and directory listings, "lookup" for reads that name no file, "other"   *)
(* for every name the adapter does not know.                               *)

DirectReads == {"file_read", "search", "lookup"}
FileEvidenceReads == {"file_read"}
LocalWrites == {"write"}
ExternalNames == {"external"}
Shells == {"shell"}
Tools == DirectReads \cup LocalWrites \cup ExternalNames \cup Shells \cup {"other"}

\* Words of a command.
ReadShell == {"cat", "head"}
ReadGit == {"status", "rev-parse", "show-ref", "ls-files"}
NetworkGit == {"push", "pull", "fetch", "clone", "ls-remote"}
ExternalPrograms == {"--pre", "--config"}
FindMutations == {"-delete", "-exec", "-execdir", "-ok"}
InPlace == {"-i", "--in-place"}
Flags == ExternalPrograms \cup FindMutations \cup InPlace \cup {"-D", "-a", "-n"}

\* The words after the first.
Arguments(words) == {words[i] : i \in 2..Len(words)}

-----------------------------------------------------------------------------
(* A use of a tool is [tool, path, opaque, words]: path is the file it     *)
(* names, words the command of a shell.  A command is opaque if it has a   *)
(* metacharacter, does not parse, or is missing or too long.               *)

\* Faulty variant: a branch command is taken for a listing whatever it names.
ClassifyGitNames(words) ==
    IF words = <<>> THEN "unknown"
    ELSE CASE Head(words) \in ReadGit \cup {"branch"} -> "read"
           [] Head(words) \in NetworkGit -> "external_side_effect"
           [] OTHER -> "local_write"

ClassifyGit(words) ==
    IF words = <<>> THEN "unknown"
    ELSE CASE Head(words) \in ReadGit -> "read"
           [] Head(words) = "branch" /\ Arguments(words) \subseteq Flags -> "read"
           [] Head(words) \in NetworkGit -> "external_side_effect"
           [] OTHER -> "local_write"

ClassifyShell(words) ==
    LET has(set) == Arguments(words) \cap set # {} IN
    IF words = <<>> THEN "unknown"
    ELSE CASE Head(words) = "git" -> ClassifyGit(Tail(words))
           [] Head(words) = "rg" -> IF has(ExternalPrograms) THEN "unknown" ELSE "read"
           [] Head(words) = "find" -> IF has(FindMutations) THEN "unknown" ELSE "read"
           [] Head(words) = "sed" -> IF has(InPlace) THEN "local_write" ELSE "read"
           [] Head(words) \in ReadShell -> "read"
           [] OTHER -> "unknown"

ClassifyTool(use) ==
    CASE use.tool \in DirectReads -> "read"
      [] use.tool \in LocalWrites -> "local_write"
      [] use.tool \in ExternalNames -> "external_side_effect"
      [] use.tool \in Shells /\ ~use.opaque -> ClassifyShell(use.words)
      [] OTHER -> "unknown"

\* Faulty variant: the file a command starts with is evidence, whatever it shows of it.
ShellEvidenceAnyRead(use) ==
    IF ~use.opaque /\ ClassifyShell(use.words) = "read" /\ Len(use.words) >= 2
    THEN use.words[2] ELSE NoPath

ShellEvidencePath(use) ==
    IF /\ ~use.opaque /\ ClassifyShell(use.words) = "read"
       /\ Len(use.words) = 2 /\ Head(use.words) = "cat" /\ use.words[2] \notin Flags
    THEN use.words[2] ELSE NoPath

\* present are the paths that are files by now.
EvidencePath(use, present) ==
    LET raw == CASE use.tool \in DirectReads -> use.path
                 [] use.tool \in Shells -> ShellEvidencePath(use)
                 [] OTHER -> NoPath
    IN IF raw \in (Inside \cap present) \ Patterns THEN raw ELSE NoPath

\* A file read is a read only if its file is one that may be evidence.
ToolClassOf(use, present) ==
    IF use.tool \in FileEvidenceReads /\ EvidencePath(use, present) = NoPath
    THEN "unknown"
    ELSE ClassifyTool(use)
=============================================================================
