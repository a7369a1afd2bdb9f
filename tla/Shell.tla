------------------------------- MODULE Shell -------------------------------
(***************************************************************************)
(* The scripts that the provider sends to a host, as programs: a sequence  *)
(* of commands over named cells (the files a script touches and the        *)
(* variables it keeps), run by sh under `set -eu`, with the commands of    *)
(* its cleanup trap.  The modules that EXTEND this one write the scripts   *)
(* down, HostResources runs them.                                          *)
(*                                                                         *)
(* A cell is a tuple of names and holds a name: what is in the file, or    *)
(* None when there is no file.                                             *)
(***************************************************************************)
EXTENDS Sequences, FiniteSets, Integers

None == "none"
Yes == "yes"

\* What `mktemp` leaves, an unfinished copy or extraction.
Part == "part"

\* Contents that the tool did not write: another's, or torn.
Junk == "junk"

Command(op, a, b) == [op |-> op, a |-> a, b |-> b, when |-> {}, held |-> FALSE]

Put(c, v)   == Command("put", c, v)
Move(a, b)  == Command("move", a, b)
Copy(a, b)  == Command("copy", a, b)
Drop(c)     == Command("drop", c, None)
RmTree(c)   == Command("rmtree", c, None)
Need(c, S)  == Command("need", c, S)
Fetch(c, v) == Command("fetch", c, v)
Exit        == Command("exit", <<>>, None)

\* rmdir of the directory whose cell is c: it stays while files are in it.
Rmdir(c, files) == Command("rmdir", c, files)

\* update-ca-certificates: the trust store takes what is at cell a into b.
Refresh(a, b) == Command("refresh", a, b)

\* The command runs only when cell c holds a member of S.
When(c, S, cmd)   == [cmd EXCEPT !.when = @ \union {<<c, S, TRUE>>}]
Unless(c, S, cmd) == [cmd EXCEPT !.when = @ \union {<<c, S, FALSE>>}]
IfSet(c, cmd)     == Unless(c, {None}, cmd)
IfUnset(c, cmd)   == When(c, {None}, cmd)

\* Between `defer_signals` and `resume_signals`, or after `trap '' HUP`: a
\* signal is not taken before this command.
Held(cmd) == [cmd EXCEPT !.held = TRUE]

(***************************************************************************)
(* A script: its commands; those of its trap; after how many commands the  *)
(* trap is set; and whether the trap of a signal returns to the script,    *)
(* as it does when the handler does not call exit.                         *)
(***************************************************************************)
Script(body, trap, armed, returns) ==
    [body |-> body, trap |-> trap, armed |-> armed, returns |-> returns]

\* A script without a trap, and one whose trap exits.
Plain(body) == Script(body, <<>>, 0, FALSE)
Guarded(body, trap) == Script(body, trap, 0, FALSE)

\* One file replaced by way of a temporary one.
Replacing(tmp, v, path) == << Put(tmp, Part), Put(tmp, v), Move(tmp, path) >>

-----------------------------------------------------------------------------
\* Whether a command runs at all in memory m.
Runs(m, cmd) == \A g \in cmd.when : (m[g[1]] \in g[2]) = g[3]

\* Whether it must fail.
Refuses(m, cmd) ==
    CASE cmd.op = "need"             -> m[cmd.a] \notin cmd.b
      [] cmd.op \in {"move", "copy"} -> m[cmd.a] = None
      [] OTHER                       -> FALSE

\* What it does when it succeeds.
Effect(m, cmd) ==
    CASE cmd.op \in {"put", "fetch"}   -> [m EXCEPT ![cmd.a] = cmd.b]
      [] cmd.op = "move"               -> [m EXCEPT ![cmd.b] = m[cmd.a], ![cmd.a] = None]
      [] cmd.op \in {"copy", "refresh"} -> [m EXCEPT ![cmd.b] = m[cmd.a]]
      [] cmd.op \in {"drop", "rmtree"} -> [m EXCEPT ![cmd.a] = None]
      [] cmd.op = "rmdir"              ->
            IF \A f \in cmd.b : m[f] = None THEN [m EXCEPT ![cmd.a] = None] ELSE m
      [] OTHER                         -> m

\* What it may leave behind when it fails: a download is unfinished, a
\* removed tree may be torn, and anything else has not happened.
Remains(m, cmd) ==
    CASE cmd.op = "fetch" -> {[m EXCEPT ![cmd.a] = Junk]}
      [] cmd.op = "rmtree" /\ m[cmd.a] # None -> {m, [m EXCEPT ![cmd.a] = Junk]}
      [] OTHER -> {m}
=============================================================================
