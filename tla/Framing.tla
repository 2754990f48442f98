------------------------------- MODULE Framing -------------------------------
(***************************************************************************)
(* Byte framing of the stream interfaces (src/interfaces/framing.c): the   *)
(* HDLC framing of TCP and shared-instance connections and the KISS        *)
(* framing of serial modems, which the RNode driver repeats with a full    *)
(* command byte.                                                           *)
(*                                                                         *)
(* A byte is one of the letters the two codes tell apart: the delimiter F  *)
(* (0x7e, or FEND), the escape E (0x7d, or FESC) and the two bytes they    *)
(* are escaped to, f and e (xor 0x20, or TFEND and TFESC).  A decoder is   *)
(* fed byte by byte, so that every way a read cuts the stream is covered.  *)
(***************************************************************************)
EXTENDS Naturals, Sequences

LOCAL INSTANCE SequencesExt

Bytes == {"F", "E", "f", "e"}

\* byte ^ 0x20, which is also the KISS transposition on these four letters.
Toggled(b) ==
    [F |-> "f", f |-> "F", E |-> "e", e |-> "E"][b]

\* append_escaped: the delimiter and the escape are sent as two bytes.
Escaped(b) ==
    IF b \in {"F", "E"} THEN <<"E", Toggled(b)>> ELSE <<b>>

\* The escaped payload, byte by byte.
EscapedAll(frame) == FlattenSeq([i \in 1..Len(frame) |-> Escaped(frame[i])])

\* rns_hdlc_encode.
HdlcEncode(frame) == <<"F">> \o EscapedAll(frame) \o <<"F">>

(***************************************************************************)
(* A decoder between two bytes.  "command" is the KISS command byte, or    *)
(* "none" while it is awaited; HDLC frames have none.                      *)
(***************************************************************************)
Decoder(commands, capacity) ==
    [buffer : UNION {[1..n -> Bytes] : n \in 0..capacity},
     synchronized : BOOLEAN, escaped : BOOLEAN, discarding : BOOLEAN,
     command : commands \cup {"none"}]

\* decoder_init and decoder_reset.
FreshDecoder ==
    [buffer |-> << >>, synchronized |-> FALSE, escaped |-> FALSE,
     discarding |-> FALSE, command |-> "none"]

\* The decoder after a delimiter, whatever it held.
AfterDelimiter == [FreshDecoder EXCEPT !.synchronized = TRUE]

\* hdlc_flag: a frame is handed up when it is whole, not empty, and did not
\* end inside an escape.
HdlcCompletes(d) ==
    /\ d.synchronized
    /\ ~d.escaped
    /\ ~d.discarding
    /\ d.buffer # << >>

\* A data byte, once unescaped, goes to the buffer, or turns the frame into
\* an oversized one that is skipped to its end.
Stored(d, b, capacity) ==
    IF Len(d.buffer) = capacity
    THEN [d EXCEPT !.discarding = TRUE, !.buffer = << >>, !.escaped = FALSE]
    ELSE [d EXCEPT !.buffer = Append(@, b), !.escaped = FALSE]

\* rns_hdlc_decoder_feed, one byte.
HdlcFeed(d, b, capacity) ==
    CASE b = "F" -> AfterDelimiter
      [] b # "F" /\ (~d.synchronized \/ d.discarding) -> d
      [] b # "F" /\ d.synchronized /\ ~d.discarding /\ d.escaped ->
            Stored(d, Toggled(b), capacity)
      [] b = "E" /\ d.synchronized /\ ~d.discarding /\ ~d.escaped ->
            [d EXCEPT !.escaped = TRUE]
      [] OTHER -> Stored(d, b, capacity)

(***************************************************************************)
(* KISS: the first byte of a frame is its command.                         *)
(***************************************************************************)
\* rns_kiss_encode_command and the RNode driver's append_frame.
KissEncode(command, frame) == <<"F", command>> \o EscapedAll(frame) \o <<"F">>

\* kiss_fend and finish_frame: a frame may be empty but must have a command.
KissCompletes(d) ==
    /\ d.synchronized
    /\ d.command # "none"
    /\ ~d.escaped
    /\ ~d.discarding

\* rns_kiss_decoder_feed_commands and feed_decoder, one byte: an escape must be
\* followed by one of the two transposed bytes.
KissFeed(d, b, capacity) ==
    CASE b = "F" -> AfterDelimiter
      [] b # "F" /\ (~d.synchronized \/ d.discarding) -> d
      [] b # "F" /\ d.synchronized /\ ~d.discarding /\ d.command = "none" ->
            [d EXCEPT !.command = b]
      [] b \in {"f", "e"} /\ d.command # "none" /\ ~d.discarding /\ d.escaped ->
            Stored(d, Toggled(b), capacity)
      [] b \notin {"F", "f", "e"} /\ d.command # "none" /\ ~d.discarding
         /\ d.escaped ->
            [d EXCEPT !.discarding = TRUE, !.escaped = FALSE, !.buffer = << >>]
      [] b = "E" /\ d.command # "none" /\ ~d.discarding /\ ~d.escaped ->
            [d EXCEPT !.escaped = TRUE]
      [] OTHER -> Stored(d, b, capacity)
=============================================================================
