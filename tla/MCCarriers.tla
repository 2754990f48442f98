----------------------------- MODULE MCCarriers -----------------------------
(***************************************************************************)
(* Instances of what carries packets and messages and how they are         *)
(* encoded: traffic through transport nodes (Forwarding), resource         *)
(* transfers (Resource, twice: with cancellations, and with several        *)
(* hashmap pages), serial ports (Serial), split radio packets              *)
(* (Reassembly), radio airtime (Airtime), proof-of-work stamps (StampWork) *)
(* and LXMF messages (Envelope).  A behaviour exercises one of them, named *)
(* by part; the others rest in their initial state.                        *)
(***************************************************************************)
EXTENDS MCForwarding, Reassembly

CONSTANTS Transfers, Responses, Segments, Parts, Page, Window, PartRetries,
          PartLosses, SendFaults,
          SerialPackets, FlowChoices, QueueDepth, SetupFrames, Delay,
          FlowTimeout, MaxPluggings, MaxLost,
          Minute, Hour, Storage, Limit, LastTime, Lengths,
          DigestBits, Byte, Nonces, Rounds, Budgets, AttemptLimit,
          MaxHashFaults,
          MaxNesting, TicketField, TicketLength, StampLengths, TimeLimit,
          MaxFields

VARIABLES part,
          outgoing, outcome, part_sent, sent_parts, resource, incoming,
          answers, handed_up, packets, packet_losses, send_faults,
          port, device, inbound, unsent, sent, written, lost_reports,
          clock, buckets, silent_until, aired, modem, frame_length,
          digest, work, budget, hash_faults,
          letter, field_list, copy, result

resourceVars == <<outgoing, outcome, part_sent, sent_parts, resource,
                  incoming, answers, handed_up, packets, packet_losses,
                  send_faults>>
serialVars == <<port, device, inbound, unsent, sent, written, lost_reports>>
dutyVars == <<clock, buckets, silent_until, aired, modem, frame_length>>
stampVars == <<digest, work, budget, hash_faults>>
envelopeVars == <<letter, field_list, copy, result>>

Rs == INSTANCE Resource WITH
        MaxRetries <- PartRetries, MaxLosses <- PartLosses,
        MaxFaults <- SendFaults, receipt <- answers, delivered <- handed_up,
        net <- packets, losses <- packet_losses, faults <- send_faults

\* One transfer of segments that need three pages of hashes.
Pages == INSTANCE Resource WITH
        Transfers <- {2}, Responses <- {2}, Parts <- 5, Page <- 2,
        MaxRetries <- 2, MaxLosses <- 1, MaxFaults <- 0,
        receipt <- answers, delivered <- handed_up,
        net <- packets, losses <- packet_losses, faults <- send_faults

\* A packet with a flag byte in front, and the escaped form of an escape byte.
FlagAndEscape == [p |-> <<"F", "e">>, q |-> <<"e">>]
Se == INSTANCE Serial WITH BytesOf <- FlagAndEscape, aired <- written

AllModems == [sf : 5 .. 12, bw : {41700, 125000}, cr : {5, 8},
              preamble : {8, 18}, crc : BOOLEAN]
Ai == INSTANCE Airtime WITH Modems <- AllModems

\* Digests of the nonces that the rounds of the workblock change.
Digests == {[r \in 0..Rounds |-> [n \in 0..Nonces - 1 |-> (f[n] + 4 * r) % 8]] :
               f \in [0..Nonces - 1 -> {0, 2, 7}]}
Sw == INSTANCE StampWork WITH Hashes <- Digests

\* Fields with and without a good ticket, and one nested too deep.
Data(n) == [code |-> "data", n |-> n]
Leaf(header, data) == [code |-> header, data |-> data, parts |-> << >>]
List(parts) == [code |-> "fixarray", data |-> << >>, parts |-> parts]
Ticket(expires, n) == List(<<expires, Leaf("bin8", [i \in 1..n |-> Data(9)])>>)
Keys == {Leaf("uint8", <<Data(3)>>), Leaf("fixint", <<Data(4)>>)}
Values == {Ticket(Leaf("double", <<Data(5)>>), 1),
           Ticket(Leaf("uint8", <<Data(6)>>), 2),
           Ticket(Leaf("double", <<Data(12)>>), 1),
           List(<<List(<<Leaf("nil", << >>)>>)>>)}
En == INSTANCE Envelope WITH
        Texts <- {<<Data(1)>>, <<Data(1), Data(2)>>},
        FieldKeys <- Keys, FieldValues <- Values

-----------------------------------------------------------------------------
CarriersInit ==
    /\ part \in {"forwarding", "transfers", "pages", "serial", "frames",
                 "airtime", "stamps", "envelope"}
    /\ Init
    /\ part # "forwarding" => /\ path[s].next_hop = b
                              /\ path[b].hops = 1 /\ path[c].hops = 1
    /\ IF part = "pages" THEN Pages!Init ELSE Rs!Init
    /\ Se!Init
    /\ part # "serial" => port.kind = "kiss" /\ ~port.flow_control
    /\ FramesInit
    /\ Ai!Init
    /\ part # "airtime" => frame_length = 0
    /\ IF part = "stamps" THEN Sw!Init
       ELSE Sw!Created(CHOOSE hashes \in Digests : TRUE, 1, 0)
    /\ IF part = "envelope"
       THEN /\ En!Init /\ letter.title # letter.content
            /\ letter.source = "stranger" => field_list = << >>
       ELSE En!Written(<< >>, <<Data(1)>>, <<Data(1)>>, "known")

ForwardingPart ==
    /\ part = "forwarding" /\ Next
    /\ UNCHANGED <<part, resourceVars, serialVars, frameVars, dutyVars,
                   stampVars, envelopeVars>>

ResourcePart ==
    /\ \/ part = "transfers" /\ Rs!Next
       \/ part = "pages" /\ Pages!TimelyNext
    /\ UNCHANGED <<part, vars, serialVars, frameVars, dutyVars, stampVars,
                   envelopeVars>>

SerialPart ==
    /\ part = "serial" /\ Se!Next
    /\ UNCHANGED <<part, vars, resourceVars, frameVars, dutyVars, stampVars,
                   envelopeVars>>

FramesPart ==
    /\ part = "frames" /\ FramesNext
    /\ UNCHANGED <<part, vars, resourceVars, serialVars, dutyVars, stampVars,
                   envelopeVars>>

AirtimePart ==
    /\ part = "airtime" /\ Ai!Next
    /\ UNCHANGED <<part, vars, resourceVars, serialVars, frameVars, stampVars,
                   envelopeVars>>

StampsPart ==
    /\ part = "stamps" /\ Sw!Next
    /\ UNCHANGED <<part, vars, resourceVars, serialVars, frameVars, dutyVars,
                   envelopeVars>>

EnvelopePart ==
    /\ part = "envelope" /\ En!Next
    /\ UNCHANGED <<part, vars, resourceVars, serialVars, frameVars, dutyVars,
                   stampVars>>

CarriersSpec ==
    CarriersInit /\ [][\/ ForwardingPart \/ ResourcePart \/ SerialPart
                       \/ FramesPart \/ AirtimePart \/ StampsPart
                       \/ EnvelopePart]_
                      <<part, vars, resourceVars, serialVars, frameVars,
                        dutyVars, stampVars, envelopeVars>>

-----------------------------------------------------------------------------
\* A completed transfer is delivered, orders stay within the window and
\* progress is exact (Resource).
ResourceTrue ==
    /\ part = "transfers" => Rs!TransfersTrue
    /\ part = "pages" => Pages!TransfersTrue

\* Requests and transfers are concluded once (Resource).
ResourceConcludedOnce ==
    [][part = "transfers" => Rs!ConcludesOnce]_resourceVars

\* A serial port sends its packets whole, is up only on a device that runs
\* our parameters, and does not get stuck (Serial).
SerialSound ==
    part = "serial" => /\ Se!TypeOK /\ Se!SentWhole
                       /\ Se!UpIsConfigured /\ Se!NeverStuck

\* The radio keeps its duty cycle, and the two airtime formulas agree
\* (Airtime).
AirtimeHeld == part = "airtime" => Ai!TypeOK /\ Ai!DutyHeld /\ Ai!AirtimesAgree

\* A stamp that was worked out passes validation, and none is given up on
\* before every nonce was tried (StampWork).
StampsHold == part = "stamps" => Sw!TypeOK /\ Sw!StampHolds

\* A message is read as it was written, and the walker steps over exactly one
\* object (Envelope).
EnvelopeRead == part = "envelope" => En!EnvelopeExact
=============================================================================
