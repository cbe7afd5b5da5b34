---------------------------- MODULE AtomicWrite -----------------------------
(***************************************************************************)
(* What the write path of internal/storage promises its callers, with no   *)
(* staging, journal, recovery or crash in sight.  A request captures the   *)
(* file it means to replace and later takes effect in one step, on that    *)
(* very file, or not at all; an effect is never undone, whatever fails.    *)
(***************************************************************************)
CONSTANTS Writers, Paths, Contents, Objects, Absent

VARIABLES
    content,  \* committed file of each path
    history,  \* version rows: <<path, content>>
    call,     \* what each request asked for and the file it captured
    status    \* "new", "open", "committed" or "failed"

vars == <<content, history, call, status>>

Calls == [path : Paths, body : Contents, snap : Objects \cup {Absent}]

Init ==
    /\ content \in [Paths -> Objects \cup {Absent}]
    /\ history \in SUBSET (Paths \X Contents)
    /\ status = [w \in Writers |-> "new"]

\* The captured file may be one that another request is still publishing.
Call(w) ==
    /\ status[w] = "new"
    /\ \E c \in Calls : call' = [call EXCEPT ![w] = c]
    /\ status' = [status EXCEPT ![w] = "open"]
    /\ UNCHANGED <<content, history>>

\* The only step that changes a file: compare-and-swap on the captured one.
Commit(w) ==
    /\ status[w] = "open" /\ content[call[w].path] = call[w].snap
    /\ content' = [content EXCEPT ![call[w].path] = [id |-> w, body |-> call[w].body]]
    /\ \/ history' = history
       \/ /\ call[w].snap # Absent
          /\ history' = history \cup {<<call[w].path, call[w].snap.body>>}
    /\ status' = [status EXCEPT ![w] = "committed"]
    /\ UNCHANGED call

Fail(w) ==
    /\ status[w] \in {"new", "open"}
    /\ status' = [status EXCEPT ![w] = "failed"]
    /\ UNCHANGED <<content, history, call>>

\* Retention drops rows of the history, never files.
Expire ==
    /\ history' \in SUBSET history
    /\ UNCHANGED <<content, call, status>>

Next == (\E w \in Writers : Call(w) \/ Commit(w) \/ Fail(w)) \/ Expire

Spec == Init /\ [][Next]_vars

=============================================================================
