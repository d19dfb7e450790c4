---------------------------- MODULE CaptureLease ----------------------------
(* What the preview's capture service promises the two clients that share it.
   The user interface says which preview it wants; a recording borrows the
   capture, because Windows allows one duplication of an output per process.
   The service behaves as if every command took effect by itself, in the order
   of the posts, on three facts: the preview that is wanted, whether the
   capture is lent out, and whether the preview holds a capture.  CaptureHub is
   the service as it is built and is shown to implement this specification. *)
EXTENDS Naturals, Sequences

\* A Subscribe names the epoch of the preview that asked for it.
Command == [op : {"Subscribe", "Unsubscribe", "LeaseRequest", "LeaseReturn"}, serial : Nat, epoch : Nat]

VARIABLES
    cmds,       \* commands posted and not yet in effect
    wish,       \* the preview that is wanted, 0 for none
    leased,     \* the capture is lent to a recording
    capture,    \* the preview holds a capture of the output
    released    \* the newest lease request that was answered

vars == <<cmds, wish, leased, capture, released>>

Init ==
    /\ cmds = <<>>
    /\ wish = 0
    /\ leased = FALSE
    /\ capture = FALSE
    /\ released = 0

\* Anyone may post; nothing that was posted is overtaken.
Post ==
    /\ Len(cmds') = Len(cmds) + 1
    /\ cmds'[Len(cmds')] \in Command
    /\ cmds' = Append(cmds, cmds'[Len(cmds')])
    /\ UNCHANGED <<wish, leased, capture, released>>

Takes(op) ==
    /\ cmds # <<>>
    /\ Head(cmds).op = op
    /\ cmds' = Tail(cmds)

\* A preview that is asked for while the capture is lent waits for its return.
ServeSubscribe ==
    /\ Takes("Subscribe")
    /\ wish' = Head(cmds).epoch
    /\ capture' \in BOOLEAN
    /\ leased => ~capture'
    /\ UNCHANGED <<leased, released>>

ServeUnsubscribe ==
    /\ Takes("Unsubscribe")
    /\ wish' = 0
    /\ capture' = FALSE
    /\ UNCHANGED <<leased, released>>

\* The answer to a lease request says that the preview's capture is gone.
ServeLeaseRequest ==
    /\ Takes("LeaseRequest")
    /\ leased' = TRUE
    /\ capture' = FALSE
    /\ released' = Head(cmds).serial
    /\ UNCHANGED wish

ServeLeaseReturn ==
    /\ Takes("LeaseReturn")
    /\ leased' = FALSE
    /\ capture' \in BOOLEAN
    /\ wish = 0 => ~capture'
    /\ UNCHANGED <<wish, released>>

\* The source comes and goes, but only for a wanted preview and never
\* behind the back of a recording.
Capture ==
    /\ capture' \in BOOLEAN
    /\ capture' => wish # 0 /\ ~leased
    /\ UNCHANGED <<cmds, wish, leased, released>>

\* The service ends: no capture survives it, and commands that were not in
\* effect by then are forgotten.
Shutdown ==
    /\ capture' = FALSE
    /\ cmds' = <<>>
    /\ UNCHANGED <<wish, leased, released>>

Next ==
    \/ Post
    \/ ServeSubscribe \/ ServeUnsubscribe \/ ServeLeaseRequest \/ ServeLeaseReturn
    \/ Capture
    \/ Shutdown

Spec == Init /\ [][Next]_vars
=============================================================================
