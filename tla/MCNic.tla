---------------------------------- MODULE MCNic -------------------------------
(* An instance of Nic: frames of one page and of two, for the guest and for    *)
(* the card itself.                                                            *)
EXTENDS Nic

Frame(for, to, n) == [for |-> for, to |-> to, pages |-> n]
MCKinds == {Frame("rdma", "peer", 1), Frame("arp", "all", 1), Frame("guest", "peer", 1),
            Frame("guest", "all", 2), Frame("guest", "other", 1)}
===============================================================================
