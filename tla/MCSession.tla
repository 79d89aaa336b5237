----------------------------- MODULE MCSession ------------------------------
(***************************************************************************)
(* Small instances of Session for TLC.                                     *)
(***************************************************************************)
EXTENDS Session

(* main's programs and rings, and which of the programs write to which.    *)
ProgramList == <<"sys_enter", "sys_exit", "inet_sock_set_state",
                 "tcp_retransmit_skb", "kmalloc", "kfree">>

RingList == <<"EVENTS", "NET_EVENTS", "FILE_EVENTS", "MEM_EVENTS">>

Writers ==
  [EVENTS      |-> {"sys_enter", "sys_exit"},
   NET_EVENTS  |-> {"inet_sock_set_state", "tcp_retransmit_skb"},
   FILE_EVENTS |-> {"sys_exit"},
   MEM_EVENTS  |-> {"kmalloc", "kfree"}]

=============================================================================
