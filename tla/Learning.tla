------------------------------- MODULE Learning -------------------------------
(***************************************************************************)
(* How a switch learns where hosts are: the L2 manager                     *)
(* (local_lib/manager/l2.py) writes the ports of MAC addresses to two      *)
(* tables of the switch, where to send (mac_dst) and where from (mac_src). *)
(*                                                                         *)
(* The switch notifies it of a packet with a source that is not in mac_src *)
(* or is there with another port.  The thread that reads the switch's      *)
(* stream learns (learn); the event loop deletes entries that are older    *)
(* than 40 seconds (collect), which all become, for the notification that  *)
(* would refresh them is not sent by the data plane.  The two do not       *)
(* exclude each other, so every access to the mapping or to a table is a   *)
(* step.  A refused INSERT or DELETE raises, and ends what raised it.      *)
(***************************************************************************)
EXTENDS PortAccess

CONSTANT MaxNotices  \* bound on notifications that wait in the stream

ASSUME LearningAssumption == MaxNotices \in Nat \ {0}

VARIABLES
    notices,   \* notifications in the stream, with the port a packet came in
    known,     \* the mapping of the L2 manager
    dst, src,  \* the two tables of the switch
    learn,     \* what the thread of the stream does
    collect,   \* what the event loop does: with how many entries
    aging,     \* whether it will look for old entries again
    gateway    \* whether the source of the gateway is ignored

learnVars == <<notices, known, dst, src, learn, collect, aging, gateway>>

Notice == [host : Hosts, port : Ports]

Idle == [step |-> "idle"]

Collected == {[step |-> "idle"]}
             \union [step : {"forget", "deldst", "delsrc"}, host : Hosts, rest : SUBSET Hosts]

Learned == {[step |-> "idle"]}
           \union [step : {"check", "forget", "deldst", "delsrc", "set", "putdst", "putsrc"},
                   host : Hosts, port : Ports]

-----------------------------------------------------------------------------
(* The data plane.                                                         *)

\* Its packets get past the authorizer and MACsec.
Sends(h) == Hears(h) /\ Passes("in", h)

\* A packet to a host that is not in the table is flooded to all ports.
Delivered(h) == dst[h] \in {NoPort, at[h]}

\* A packet of h with a source that is unknown, or known at another port.
Talk(h) ==
    /\ Sends(h) /\ src[h] # at[h] /\ Len(notices) < MaxNotices
    /\ notices' = Append(notices, [host |-> h, port |-> at[h]])
    /\ UNCHANGED <<known, dst, src, learn, collect, aging, gateway, accessVars>>

-----------------------------------------------------------------------------
(* What both threads do to the mapping and the tables.                     *)

Set(table, h, port) == [table EXCEPT ![h] = port]

\* One access, and whether it raises.
Access(step, h, port) ==
    /\ known' = CASE step = "forget" -> Set(known, h, NoPort)
                  [] step = "set"    -> Set(known, h, port)
                  [] OTHER           -> known
    /\ dst' = CASE step = "deldst" -> Set(dst, h, NoPort)
                [] step = "putdst" /\ dst[h] = NoPort -> Set(dst, h, port)
                [] OTHER -> dst
    /\ src' = CASE step = "delsrc" -> Set(src, h, NoPort)
                [] step = "putsrc" /\ src[h] = NoPort -> Set(src, h, port)
                [] OTHER -> src

Raises(step, h) ==
    \/ step = "forget" /\ known[h] = NoPort
    \/ step = "deldst" /\ dst[h] = NoPort
    \/ step = "delsrc" /\ src[h] = NoPort
    \/ step = "putdst" /\ dst[h] # NoPort
    \/ step = "putsrc" /\ src[h] # NoPort

-----------------------------------------------------------------------------
(* The thread of the stream.                                               *)

Read ==
    /\ learn = Idle /\ notices # <<>>
    /\ learn' = [step |-> "check", host |-> Head(notices).host, port |-> Head(notices).port]
    /\ notices' = Tail(notices)
    /\ UNCHANGED <<known, dst, src, collect, aging, gateway, accessVars>>

\* Wrong on purpose: the old entry is not deleted.
AfterCheck_Set(h) == "set"

\* update_l2_entry: an entry that is known is deleted first.
AfterCheck(h) == IF known[h] # NoPort THEN "forget" ELSE "set"

AfterLearn ==
    CASE learn.step = "check"  -> AfterCheck(learn.host)
      [] learn.step = "forget" -> "deldst"
      [] learn.step = "deldst" -> "delsrc"
      [] learn.step = "delsrc" -> "set"
      [] learn.step = "set"    -> "putdst"
      [] learn.step = "putdst" -> "putsrc"
      [] OTHER -> "idle"

LearnSource ==
    /\ learn # Idle
    /\ Access(learn.step, learn.host, learn.port)
    /\ learn' = IF Raises(learn.step, learn.host) \/ AfterLearn = "idle" THEN Idle
                ELSE [learn EXCEPT !.step = AfterLearn]
    /\ UNCHANGED <<notices, collect, aging, gateway, accessVars>>

\* The first packet that comes from the gateway.
LearnGateway ==
    /\ learn = Idle /\ ~gateway /\ gateway' = TRUE
    /\ UNCHANGED <<notices, known, dst, src, learn, collect, aging, accessVars>>

-----------------------------------------------------------------------------
(* The event loop.                                                         *)

\* The next of the old entries.
Collecting(hosts) ==
    IF hosts = {} THEN collect' = Idle
    ELSE \E h \in hosts : collect' = [step |-> "forget", host |-> h, rest |-> hosts \ {h}]

JustSet(h) == learn.step \in {"putdst", "putsrc"} /\ learn.host = h

\* Every 40 seconds.  Any entry may be older by now that is not being written.
Collect ==
    /\ collect = Idle /\ aging
    /\ \E old \in SUBSET {h \in Hosts : known[h] # NoPort /\ ~JustSet(h)} :
         old # {} /\ Collecting(old)
    /\ UNCHANGED <<notices, known, dst, src, learn, aging, gateway, accessVars>>

\* The mapping changes while it looks for them: that raises, and the interval is
\* not set again.
CollectChanged ==
    /\ collect = Idle /\ aging /\ learn.step \in {"forget", "set"}
    /\ aging' = FALSE
    /\ UNCHANGED <<notices, known, dst, src, learn, collect, gateway, accessVars>>

\* Nor is it after any other exception.
RemoveOld ==
    /\ collect # Idle
    /\ Access(collect.step, collect.host, NoPort)
    /\ aging' = (aging /\ ~Raises(collect.step, collect.host))
    /\ IF Raises(collect.step, collect.host) THEN collect' = Idle
       ELSE CASE collect.step = "forget" -> collect' = [collect EXCEPT !.step = "deldst"]
              [] collect.step = "deldst" -> collect' = [collect EXCEPT !.step = "delsrc"]
              [] collect.step = "delsrc" -> Collecting(collect.rest)
    /\ UNCHANGED <<notices, learn, gateway, accessVars>>

-----------------------------------------------------------------------------
LearnInit ==
    /\ notices = <<>>
    /\ known = [h \in Hosts |-> NoPort]
    /\ dst = [h \in Hosts |-> NoPort] /\ src = [h \in Hosts |-> NoPort]
    /\ learn = Idle /\ collect = Idle
    /\ aging = TRUE /\ gateway = FALSE

LearnNext ==
    \/ \E h \in Hosts : Talk(h)
    \/ Read \/ LearnSource \/ LearnGateway \/ Collect \/ CollectChanged \/ RemoveOld

-----------------------------------------------------------------------------
LearnTypeOK ==
    /\ notices \in Seq(Notice) /\ Len(notices) <= MaxNotices
    /\ known \in [Hosts -> Ports \union {NoPort}]
    /\ dst \in [Hosts -> Ports \union {NoPort}] /\ src \in [Hosts -> Ports \union {NoPort}]
    /\ learn \in Learned /\ collect \in Collected
    /\ aging \in BOOLEAN /\ gateway \in BOOLEAN

\* Packets to a host that goes on sending reach it in the end, sent to its port
\* or flooded to all: wherever it was before, whatever notifications of earlier
\* places are still to be read, and whichever of the two threads deletes and
\* writes its entries first; as long as no exception has ended the collection.
HostsReachable == \A h \in Hosts : <>[](aging /\ Sends(h) => Delivered(h))
=============================================================================
