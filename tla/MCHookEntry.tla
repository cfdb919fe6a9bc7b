---------------------------- MODULE MCHookEntry ----------------------------
(***************************************************************************)
(* Instance of HookEntry for TLC.  tasks is a source; other lies inside    *)
(* the repository and is none; outside does not; glob is a wildcard.       *)
(***************************************************************************)
EXTENDS HookEntry, TLC

CONSTANTS tasks, other, outside, glob

Use(tool, path) == [tool |-> tool, path |-> path, opaque |-> FALSE, words |-> <<>>]
Command(words) == [tool |-> "shell", path |-> NoPath, opaque |-> FALSE, words |-> words]
Opaque == [Command(<<"cat", tasks>>) EXCEPT !.opaque = TRUE]

\* Commands that change something by words the adapter does not know (sed
\* -i.bak, sed's w, find -fprint, git branch -D or --edit-description with no
\* name) are not among the uses: see README.
MCHarmless ==
    {Use("file_read", f) : f \in {tasks, outside}}
      \cup {Use("search", f) : f \in {tasks, other}}
      \cup {Use("lookup", NoPath),
            Command(<<"cat", tasks>>), Command(<<"cat", tasks, other>>),
            Command(<<"head", tasks>>), Command(<<"cat", glob>>), Command(<<"sed", "-n", tasks>>),
            Command(<<"git", "branch", "-a">>), Command(<<"git", "status">>),
            Command(<<"rg", "-n", tasks>>), Command(<<"find", tasks>>)}

Changing ==
    {Use("write", tasks), Use("external", NoPath), Use("other", NoPath), Opaque,
     Command(<<"git", "branch", other>>), Command(<<"git", "branch", "-D", other>>),
     Command(<<"git", "push">>), Command(<<"git", "commit">>), Command(<<"git">>),
     Command(<<"find", other, "-delete">>), Command(<<"sed", "-i", tasks>>),
     Command(<<"rg", "--pre", other>>), Command(<<"rm", tasks>>), Command(<<>>)}

MCUses == MCHarmless \cup Changing

\* All tools but one, or only the shell.
MCInventories == {Tools \ {"external"}, Shells}
=============================================================================
