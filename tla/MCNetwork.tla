-------------------------------- MODULE MCNetwork --------------------------------
(***************************************************************************)
(* Instances of NetworkFaults: a command and an acknowledgement in flight, *)
(* and what must not be seen of them.                                      *)
(***************************************************************************)
EXTENDS NetworkFaults, MCDomains

cmd == Field("cmd")
ack == Field("ack")
done == Field("done")

Async(inv, initial) ==
  Domain(<<IntVar("cmd", 0, 2, 0), IntVar("ack", 0, 2, 0), BoolVar("done", initial)>>,
         <<Op("send", <<Is(cmd, 0), Not(done)>>, <<Set("cmd", Num(2))>>),
           Op("reply", <<Is(cmd, 2), Is(ack, 0)>>, <<Set("ack", Num(1)), Set("cmd", Num(0))>>),
           Op("finish", <<Is(ack, 1)>>, <<Set("done", True), Set("ack", Num(0))>>)>>,
         inv, 2)

Unsafe ==
  {Not(Binary("and", Is(cmd, 1), Is(ack, 1))), Not(Is(cmd, 1)), Not(Is(ack, 2)),
   Not(Binary("and", Is(cmd, 2), Is(ack, 2))), Not(Binary("and", Is(cmd, 2), Is(ack, 1))),
   Not(Binary("and", Is(ack, 0), done)), True}

MCNetworkSpecs == {Async(inv, initial) : inv \in Unsafe, initial \in BOOLEAN}

MCFaultSets == SUBSET {"message_loss", "duplication", "reordering"}

\* One of two slots, in both orders; one slot; one declared twice; a Boolean one.
MCSlotLists ==
  {<<"cmd", "ack">>, <<"ack", "cmd">>, <<"cmd">>, <<"cmd", "cmd">>, <<"cmd", "done">>, <<"done">>}

=============================================================================
