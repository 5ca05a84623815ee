----------------------------- MODULE FrameChannel -----------------------------
(***************************************************************************)
(* What a transport promises the serial protocol: the frames of the device *)
(* come in the order they were sent, each to one wait, whole and untouched, *)
(* whatever lies between them.  A stall spoils the frame it happens in and *)
(* no other; a wait that expires costs no frame.  The promise ends when a  *)
(* frame that holds a start byte inside was left half read (~sync).        *)
(***************************************************************************)
EXTENDS Naturals, Sequences

CONSTANTS
    Frames,   \* records with a type and a payload, a sequence of cells
    Noise,    \* the type of what is on the line and no frame
    START,    \* the cell a frame begins with
    Accepts   \* for each kind of wait, the types it takes

VARIABLES
    polled,   \* the host clocks the line, and gets filler from a slow device
    chan,     \* frames on the way, oldest first
    wait,     \* the wait of the host, or "none"
    last,     \* how the last wait ended, and what it returned
    stalled,  \* the device stalled during the last wait
    sync      \* no frame with START inside was left half read

vars == <<polled, chan, wait, last, stalled, sync>>

Pending == [end |-> "none", type |-> Noise, payload |-> <<>>]
Got(f)  == [end |-> "ok", type |-> f.type, payload |-> f.payload]
\* A start byte in its payload, or for its length.
Holds(f) == Len(f.payload) = START \/ \E i \in DOMAIN f.payload : f.payload[i] = START
Skipping(n) == SubSeq(chan, n + 1, Len(chan))

\* What may be returned for payload p after a stall: over a line that only
\* carries what the device sends, the part that arrived; over a polled one,
\* no more than it.
Remnant(q, p) == Len(q) <= Len(p) /\ (~polled => q = SubSeq(p, 1, Len(q)))

Init ==
    /\ polled \in BOOLEAN
    /\ chan = <<>> /\ wait = "none" /\ last = Pending
    /\ stalled = FALSE /\ sync = TRUE

Send(f) ==
    /\ chan' = Append(chan, f)
    /\ UNCHANGED <<wait, last, stalled, sync>>

Ask(w) ==
    /\ wait = "none"
    /\ wait' = w /\ last' = Pending /\ stalled' = FALSE
    /\ UNCHANGED <<chan, sync>>

SkipNoise ==
    /\ wait # "none"
    /\ chan # <<>> /\ Head(chan).type = Noise
    /\ chan' = Tail(chan)
    /\ UNCHANGED <<wait, last, stalled, sync>>

Stall ==
    /\ wait # "none"
    /\ stalled' = TRUE
    /\ UNCHANGED <<chan, wait, last, sync>>

\* The frame that is next is of a type the wait takes, and no stall: exactly it.
Receive ==
    /\ wait # "none" /\ wait' = "none"
    /\ chan # <<>> /\ Head(chan).type \in Accepts[wait]
    /\ ~stalled
    /\ chan' = Tail(chan)
    /\ last' = Got(Head(chan))
    /\ UNCHANGED <<stalled, sync>>

\* The wait takes no frame: it expired, or the bus broke the read.
Miss ==
    /\ wait # "none" /\ wait' = "none"
    /\ \/ last' = [Pending EXCEPT !.end = "timeout"]
       \/ last' = [Pending EXCEPT !.end = "broken"] /\ stalled'
    /\ stalled' \in {stalled, TRUE}
    /\ UNCHANGED <<chan, sync>>

\* A stall inside the frame that is next: it is lost, or what is returned is
\* what is left of it; the frames behind it are untouched.
Spoil ==
    /\ wait # "none" /\ wait' = "none"
    /\ chan # <<>> /\ Head(chan).type \in Accepts[wait]
    /\ stalled' = TRUE
    /\ chan' = Tail(chan)
    /\ \/ last' = [Pending EXCEPT !.end = "broken"]
       \/ /\ last'.end = "ok" /\ last'.type = Head(chan).type
          /\ Remnant(last'.payload, Head(chan).payload)
    /\ sync' \in {sync, sync /\ ~Holds(Head(chan))}

\* The frame that is next is of another type: the wait fails, with it goes
\* what the wait read of the frames behind it.
Reject ==
    /\ wait # "none" /\ wait' = "none"
    /\ chan # <<>> /\ Head(chan).type \notin Accepts[wait]
    /\ last' = [Pending EXCEPT !.end = "broken"]
    /\ stalled' \in {stalled, TRUE}
    /\ \E n \in 1 .. Len(chan) :
         /\ chan' = Skipping(n)
         /\ sync' \in {sync, sync /\ ~Holds(chan[n])}

\* Nothing is promised any more.
Astray ==
    /\ ~sync /\ ~sync'
    /\ \E n \in 0 .. Len(chan) : chan' = Skipping(n)

Step ==
    \/ \E f \in Frames : Send(f)
    \/ \E w \in DOMAIN Accepts : Ask(w)
    \/ SkipNoise \/ Stall \/ Receive \/ Miss \/ Spoil \/ Reject \/ Astray

Next == Step /\ UNCHANGED polled

Spec == Init /\ [][Next]_vars

=============================================================================
