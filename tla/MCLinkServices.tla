--------------------------- MODULE MCLinkServices ---------------------------
(***************************************************************************)
(* Instances of the two services on a link that repeat what was lost: the  *)
(* channel, and a resource transfer in a timely network.  A behaviour      *)
(* exercises one of them, named by part; the other rests in its initial    *)
(* state.                                                                  *)
(***************************************************************************)
EXTENDS Channel

CONSTANTS Transfers, Responses, Segments, Parts, Page, Window,
          PartRetries, PartLosses, SendFaults, NULL

VARIABLES part, outgoing, outcome, part_sent, sent_parts, resource, incoming,
          receipt, handed_up, packets, packet_losses, send_faults

resourceVars == <<outgoing, outcome, part_sent, sent_parts, resource,
                  incoming, receipt, handed_up, packets, packet_losses,
                  send_faults>>

Rs == INSTANCE Resource WITH
        MaxRetries <- PartRetries, MaxLosses <- PartLosses,
        MaxFaults <- SendFaults, delivered <- handed_up, net <- packets,
        losses <- packet_losses, faults <- send_faults

ServicesInit == part \in {"channel", "resource"} /\ Init /\ Rs!Init

(* Bounds on the channel: a behaviour has its losses or a refused callback,
   enough of the former to give a message up, and is followed to the first
   state in which the two ends are out of each other's reach. *)
FewFaults == losses + MaxLosses * refusals <= MaxLosses

ChannelStep(A) == part = "channel" /\ Together /\ A /\ FewFaults'

ChannelNext == ChannelStep(Next) /\ UNCHANGED <<part, resourceVars>>

ResourceNext ==
  part = "resource" /\ Rs!TimelyNext /\ UNCHANGED <<part, vars>>

ServicesSpec ==
  /\ ServicesInit /\ [][ChannelNext \/ ResourceNext]_<<part, vars, resourceVars>>
  /\ WF_vars(ChannelStep(Elapse))
  /\ SF_vars(ChannelStep(Resend))
  /\ WF_vars(ChannelStep(Arrive))
  /\ \A t \in Transfers :
       WF_resourceVars(part = "resource" /\ Rs!Advertise(t) /\ packet_losses' = 0)
  /\ WF_resourceVars(part = "resource" /\ \E m \in packets : Rs!Arrive(m))
  /\ WF_resourceVars(part = "resource" /\ Rs!QuietRetry)

----------------------------------------------------------------------------
(* A transfer whose losses the retries can make up for completes (Resource). *)
ResourceEventuallyCompletes == part = "resource" => Rs!EventuallyComplete
=============================================================================
