------------------------------- MODULE Broker -------------------------------
(***************************************************************************)
(* The job queue every producer and worker of the ingestion shares: a      *)
(* durable RabbitMQ queue used through internal/queue.  A publish returns  *)
(* once the broker confirms it; a delivery stays the broker's until it is  *)
(* acknowledged, and comes back when the channel that held it closes.      *)
(* Priorities only advise the broker (a redelivery overtakes them), so any *)
(* waiting message may be delivered next.                                  *)
(***************************************************************************)
EXTENDS Naturals, Sequences, Bags, SequencesExt

Published(queue, jobs) == queue (+) SetToBag(jobs)

(* A failed or cancelled run of publishes leaves any of its frames queued. *)
PublishedSome(queue, jobs) == {Published(queue, part) : part \in SUBSET jobs}

Waiting(queue) == BagToSet(queue)

Delivered(queue, job) == queue (-) SetToBag({job})

Requeued(queue, job) == queue (+) SetToBag({job})

(* Closing a consumer's channel returns everything it left unacknowledged. *)
ChannelClosed(queue, held) == FoldSeq(LAMBDA job, q : Requeued(q, job), queue, held)
=============================================================================
