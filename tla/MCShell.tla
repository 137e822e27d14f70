------------------------------ MODULE MCShell ------------------------------
\* Sessions of the shell: one command to a line, chains of commands, and lines
\* with an error.
EXTENDS Shell

\* Two collections, two documents, one key, two values.
Enter == {<<"collection", "a">>, <<"collection", "b">>, <<"document", "x">>, <<"document", "y">>}
Change == {<<"put", "k", "v">>, <<"put", "k", "w">>, <<"delete", "x">>, <<"delete", "k">>}
Leave == {<<"up">>, <<"top">>, <<"close">>}
Look == {<<"get", "k">>, <<"help">>}
Broken == {<<"collection">>, <<"put", "k">>, <<"put">>, <<"drop", "x">>}

Single == Enter \cup Change \cup Leave \cup Look
Chain == {s \o t : s \in Change \cup Leave, t \in Enter \cup Leave \cup Broken}

MCLine == Single \cup Broken \cup Chain
=============================================================================
