------------------------------ MODULE CdpProxy ------------------------------
(***************************************************************************)
(* proxy_websocket of eiger-api: the two directions between a client and   *)
(* the browser of its session, and the stealth commands that Eiger sends   *)
(* to Chrome on the same connection under ids of its own.                  *)
(*                                                                         *)
(* The two directions are halves of one task: they interleave at awaits,   *)
(* share the lock of the sender to Chrome, and the first to return drops   *)
(* the other.  What the client sent, what Chrome was sent and what the     *)
(* client was delivered are sequences that only grow, with an index of how *)
(* far the other end has read.  Chrome answers in order; it reports that   *)
(* it attached the client to a target before it answers or obeys anything  *)
(* in the session.                                                         *)
(***************************************************************************)
EXTENDS Naturals, Sequences, FiniteSets

CONSTANTS Commands,      \* what the client may send, each command once
          Sessions,      \* CDP sessions of targets the client is attached to
          Pages,         \* those whose target is a page or an iframe
          NoSession,     \* the session of the browser itself
          Stealth,       \* the session was created with stealth enabled
          EigerIdStart,  \* EIGER_CDP_ID_START
          ChromeBuffer,  \* messages that Chrome has not read yet, at most
          ClientBuffer   \* messages that the client has not read yet, at most

ASSUME ProxyAssumption ==
  /\ Commands \subseteq
       [from : {"client"}, id : Nat, session : Sessions \cup {NoSession},
        method : {"navigate", "resume", "other", "close"}]
  /\ Pages \subseteq Sessions
  /\ NoSession \notin Sessions
  /\ Stealth \in BOOLEAN
  /\ EigerIdStart \in Nat \ {0}
  /\ ChromeBuffer \in Nat \ {0}
  /\ ClientBuffer \in Nat \ {0}

VARIABLES sent,        \* by the client
          taken,       \* how much of it client_to_upstream has taken
          gone,        \* the client is not there any more
          pc,          \* where client_to_upstream, upstream_to_client are
          lock,        \* who asked for upstream_sender; the head holds it
          batch,       \* stealth commands sent of the batch under way
          nextId,      \* eiger_cdp_id
          upstream,    \* sent to Chrome
          executed,    \* how much of it Chrome has executed
          downstream,  \* on its way from Chrome to the proxy
          delivered,   \* sent to the client
          seen,        \* how much of it the client has read
          attached,    \* sessions that Chrome has reported
          connected    \* Chrome serves the connection

clientVars == <<sent, gone, seen>>
proxyVars == <<taken, pc, lock, batch, nextId>>
wireVars == <<upstream, downstream, delivered>>
chromeVars == <<executed, attached, connected>>
cdpVars == <<clientVars, proxyVars, wireVars, chromeVars>>

Halves == {"client", "browser"}
HalfPCs == {"connect", "next", "inject", "pause", "forward", "close", "done"}

(* Chrome's messages: an answer names its command, with id 0 a session is  *)
(* reported.                                                               *)
Answer(c) == [id |-> c.id, to |-> c.from, session |-> c.session]
AttachedToTarget(s) == [id |-> 0, to |-> "event", session |-> s]

(* send_stealth_commands, for the one baseline script.                     *)
Batch == <<"enable", "addScript", "evaluate">>

EigerCommands ==
  [from : {"eiger"}, id : Nat, session : Sessions \cup {NoSession},
   method : {"enable", "addScript", "evaluate"}]

Messages ==
  [id : Nat, to : {"client", "eiger", "event"},
   session : Sessions \cup {NoSession}]

ProxyTypeOK ==
  /\ sent \in Seq(Commands) /\ taken \in 0..Len(sent)
  /\ gone \in BOOLEAN /\ connected \in BOOLEAN
  /\ pc \in [Halves -> HalfPCs]
  /\ lock \in Seq(Halves) /\ Len(lock) <= 2
  /\ batch \in [Halves -> 0..2]
  /\ nextId \in Nat /\ nextId >= EigerIdStart
  /\ upstream \in Seq(Commands \cup EigerCommands)
  /\ executed \in 0..Len(upstream)
  /\ downstream \in Seq(Messages) /\ delivered \in Seq(Messages)
  /\ seen \in 0..Len(delivered)
  /\ attached \subseteq Sessions

ProxyStart(at) ==
  /\ sent = <<>> /\ taken = 0 /\ gone = FALSE
  /\ pc = [h \in Halves |-> at]
  /\ lock = <<>> /\ batch = [h \in Halves |-> 0] /\ nextId = EigerIdStart
  /\ upstream = <<>> /\ executed = 0
  /\ downstream = <<>> /\ delivered = <<>> /\ seen = 0
  /\ attached = {} /\ connected = TRUE

ProxyInit == ProxyStart("connect")

Goto(h, next) == pc' = [pc EXCEPT ![h] = next]

(* select: whichever half returns first ends the proxy.                    *)
Ended == \E h \in Halves : pc[h] = "done"
Proxying(h, at) == ~Ended /\ pc[h] = at

----------------------------------------------------------------------------
(* proxy_websocket, send_stealth_commands *)

(* connect_async has no timeout, and until it returns nobody looks at the  *)
(* client.                                                                 *)
Connect ==
  /\ pc["client"] = "connect"
  /\ pc' = [h \in Halves |-> IF connected THEN "next" ELSE "done"]
  /\ UNCHANGED <<clientVars, taken, lock, batch, nextId, wireVars, chromeVars>>

(* tokio's Mutex is fair: it is held by those who ask for it in turn.      *)
Holds(h) == lock # <<>> /\ Head(lock) = h
ChromeTakes == connected /\ Len(upstream) - executed < ChromeBuffer

(* Mutant: the sender is locked for each command of a batch.               *)
LockPerCommand(h) == Append(Tail(lock), h)

(* Both callers hold the lock for the whole batch.                         *)
LockInBatch(h) == lock

SendStealthCommand(h, s) ==
  /\ Proxying(h, "inject")
  /\ Holds(h) /\ ChromeTakes
  /\ upstream' = Append(upstream, [from |-> "eiger", id |-> nextId,
                                   session |-> s,
                                   method |-> Batch[batch[h] + 1]])
  /\ nextId' = nextId + 1
  /\ IF batch[h] + 1 = Len(Batch)
     THEN /\ batch' = [batch EXCEPT ![h] = 0]
          /\ Goto(h, "pause")
          /\ UNCHANGED lock
     ELSE /\ batch' = [batch EXCEPT ![h] = @ + 1]
          /\ lock' = LockInBatch(h)
          /\ UNCHANGED pc
  /\ UNCHANGED <<clientVars, taken, downstream, delivered, chromeVars>>

(* Chrome has closed the connection: an error ends the half.               *)
SendFails(h) ==
  /\ ~Ended /\ ~connected
  /\ pc[h] = "inject" \/ (h = "client" /\ pc[h] = "forward")
  /\ Holds(h)
  /\ Goto(h, "done")
  /\ UNCHANGED <<clientVars, taken, lock, batch, nextId, wireVars, chromeVars>>

----------------------------------------------------------------------------
(* client_to_upstream *)

(* Mutant: the session is only looked at when its target is reported.      *)
NeverReinjects(c) == FALSE

(* client_message_stealth_session: navigate stands for Page.navigate,      *)
(* reload, printToPDF and captureScreenshot.                               *)
Reinjects(c) == Stealth /\ c.method = "navigate" /\ c.session # NoSession

TakeCommand ==
  /\ Proxying("client", "next")
  /\ taken < Len(sent)
  /\ taken' = taken + 1
  /\ Goto("client", IF Reinjects(sent[taken + 1]) THEN "inject" ELSE "forward")
  /\ lock' = Append(lock, "client")
  /\ UNCHANGED <<clientVars, batch, nextId, wireVars, chromeVars>>

ReinjectStealth == SendStealthCommand("client", sent[taken].session)

(* Mutant: the command that asked for the scripts is not forwarded.        *)
SwallowCommand ==
  /\ Proxying("client", "pause")
  /\ lock' = Tail(lock)
  /\ Goto("client", "next")
  /\ UNCHANGED <<clientVars, taken, batch, nextId, wireVars, chromeVars>>

(* 50 ms later the lock is released, and asked for again.                  *)
EndPause ==
  /\ Proxying("client", "pause")
  /\ lock' = Append(Tail(lock), "client")
  /\ Goto("client", "forward")
  /\ UNCHANGED <<clientVars, taken, batch, nextId, wireVars, chromeVars>>

ForwardCommand ==
  /\ Proxying("client", "forward")
  /\ Holds("client") /\ ChromeTakes
  /\ upstream' = Append(upstream, sent[taken])
  /\ lock' = Tail(lock)
  /\ Goto("client", "next")
  /\ UNCHANGED <<clientVars, taken, batch, nextId, downstream, delivered,
                 chromeVars>>

(* Mutant: a client that is not there any more is not noticed.             *)
OnlyClosed == taken > 0 /\ sent[taken].method = "close"

(* No more messages after a Close, or an error.                            *)
ClientStreamEnds == gone \/ (taken > 0 /\ sent[taken].method = "close")

BeginClose ==
  /\ Proxying("client", "next")
  /\ taken = Len(sent) /\ ClientStreamEnds
  /\ Goto("client", "close")
  /\ lock' = Append(lock, "client")
  /\ UNCHANGED <<clientVars, taken, batch, nextId, wireVars, chromeVars>>

(* The close frame is flushed, or fails, which nobody looks at.             *)
CloseUpstream ==
  /\ Proxying("client", "close")
  /\ Holds("client") /\ (connected => ChromeTakes)
  /\ Goto("client", "done")
  /\ UNCHANGED <<clientVars, taken, lock, batch, nextId, wireVars, chromeVars>>

----------------------------------------------------------------------------
(* upstream_to_client *)

(* Mutant: the answer to the first command of Eiger is taken for another's. *)
EigerIdAfterStart(m) == m.id > EigerIdStart

(* Mutant: the last id that the client may use is taken for Eiger's.       *)
EigerIdBeforeStart(m) == m.id >= EigerIdStart - 1

(* is_eiger_cdp_response.                                                  *)
IsEigerResponse(m) == m.id >= EigerIdStart

(* Mutant: the event goes on to the client, scripts or not.                *)
InjectsNever(m) == FALSE

Injects(m) == Stealth /\ m.to = "event" /\ m.session \in Pages

HideAnswer ==
  /\ Proxying("browser", "next")
  /\ downstream # <<>> /\ IsEigerResponse(Head(downstream))
  /\ downstream' = Tail(downstream)
  /\ UNCHANGED <<clientVars, proxyVars, upstream, delivered, chromeVars>>

(* The message stays at the head until upstream_to_client is done with it. *)
TakeMessage ==
  /\ Proxying("browser", "next")
  /\ downstream # <<>> /\ ~IsEigerResponse(Head(downstream))
  /\ IF Injects(Head(downstream))
     THEN Goto("browser", "inject") /\ lock' = Append(lock, "browser")
     ELSE Goto("browser", "forward") /\ UNCHANGED lock
  /\ UNCHANGED <<clientVars, taken, batch, nextId, wireVars, chromeVars>>

InjectStealth == SendStealthCommand("browser", Head(downstream).session)

(* Mutant: the guard lives until the event has been forwarded.             *)
GuardKept == lock

(* 200 ms later inject_stealth_from_proxy_event returns and with it goes   *)
(* the guard.                                                              *)
GuardDropped == Tail(lock)

InjectionReturns ==
  /\ Proxying("browser", "pause")
  /\ lock' = GuardDropped
  /\ Goto("browser", "forward")
  /\ UNCHANGED <<clientVars, taken, batch, nextId, wireVars, chromeVars>>

ForwardMessage ==
  /\ Proxying("browser", "forward")
  /\ IF gone
     THEN Goto("browser", "done") /\ UNCHANGED <<downstream, delivered>>
     ELSE /\ Len(delivered) - seen < ClientBuffer
          /\ delivered' = Append(delivered, Head(downstream))
          /\ downstream' = Tail(downstream)
          /\ Goto("browser", "next")
  /\ UNCHANGED <<clientVars, taken, lock, batch, nextId, upstream, chromeVars>>

(* The stream ends, or is reset before all of it is read.                  *)
UpstreamEnds ==
  /\ Proxying("browser", "next")
  /\ ~connected
  /\ Goto("browser", "done")
  /\ UNCHANGED <<clientVars, taken, lock, batch, nextId, wireVars, chromeVars>>

----------------------------------------------------------------------------
(* The client and Chrome *)

Knows(s) == \E i \in 1..seen : delivered[i] = AttachedToTarget(s)

ClientSends(c) ==
  /\ ~gone /\ ~Ended
  /\ \A i \in DOMAIN sent : sent[i] # c /\ sent[i].method # "close"
  /\ c.session # NoSession => Knows(c.session)
  /\ sent' = Append(sent, c)
  /\ UNCHANGED <<gone, seen, proxyVars, wireVars, chromeVars>>

ClientReads ==
  /\ ~gone /\ ~Ended /\ seen < Len(delivered)
  /\ seen' = seen + 1
  /\ UNCHANGED <<sent, gone, proxyVars, wireVars, chromeVars>>

ClientLeaves ==
  /\ ~gone /\ ~Ended
  /\ gone' = TRUE
  /\ UNCHANGED <<sent, seen, proxyVars, wireVars, chromeVars>>

(* Chrome serves a connection until the proxy drops it.                    *)
Serves == connected /\ ~Ended /\ pc["client"] # "connect"

Execute ==
  /\ Serves /\ executed < Len(upstream)
  /\ executed' = executed + 1
  /\ LET c == upstream[executed + 1] IN
       IF c.method = "close"
       THEN connected' = FALSE /\ UNCHANGED downstream
       ELSE downstream' = Append(downstream, Answer(c)) /\ UNCHANGED connected
  /\ UNCHANGED <<clientVars, proxyVars, upstream, delivered, attached>>

Attach(s) ==
  /\ Serves /\ s \notin attached
  /\ attached' = attached \cup {s}
  /\ downstream' = Append(downstream, AttachedToTarget(s))
  /\ UNCHANGED <<clientVars, proxyVars, upstream, delivered, executed,
                 connected>>

Disconnect ==
  /\ connected /\ ~Ended
  /\ connected' = FALSE
  /\ UNCHANGED <<clientVars, proxyVars, wireVars, executed, attached>>

----------------------------------------------------------------------------
(* The specification *)

ClientHalf ==
  \/ TakeCommand \/ ReinjectStealth \/ EndPause \/ ForwardCommand
  \/ SendFails("client") \/ BeginClose \/ CloseUpstream

BrowserHalf ==
  \/ HideAnswer \/ TakeMessage \/ InjectStealth \/ InjectionReturns
  \/ ForwardMessage \/ SendFails("browser") \/ UpstreamEnds

Client == ClientReads \/ ClientLeaves \/ \E c \in Commands : ClientSends(c)

ProxyNext ==
  \/ Connect \/ ClientHalf \/ BrowserHalf \/ Client
  \/ Execute \/ Disconnect \/ \E s \in Sessions : Attach(s)

ProxySpec == ProxyInit /\ [][ProxyNext]_cdpVars

(* Both halves are polled, and Chrome reads its connection.  The client is *)
(* owed nothing and owes nothing: it need not read, leave or send.         *)
ProxyFairness ==
  WF_cdpVars(ClientHalf) /\ WF_cdpVars(BrowserHalf) /\ WF_cdpVars(Execute)

FairProxySpec == ProxySpec /\ ProxyFairness

----------------------------------------------------------------------------
(* Properties *)

(* How many of the first n messages that Chrome was sent are the client's. *)
Forwarded(n) == Cardinality({i \in 1..n : upstream[i].from = "client"})

(* client_to_upstream has a command that it has not forwarded yet.         *)
HasCommand == pc["client"] \in {"inject", "pause", "forward"}

(* Injected commands stand between the client's, and it takes turns at the *)
(* lock with them; the client's commands still reach Chrome once each and  *)
(* in the order they were sent, each one before the next is taken.         *)
ForwardedInOrder ==
  /\ \A i \in DOMAIN upstream :
       upstream[i].from = "client" => upstream[i] = sent[Forwarded(i)]
  /\ Forwarded(Len(upstream)) \in {taken - 1, taken}
  /\ pc["client"] # "done" =>
       Forwarded(Len(upstream)) = IF HasCommand THEN taken - 1 ELSE taken

(* Chrome gets no command of the client in a page before the scripts are   *)
(* in it: the event that tells the client of the session is held back.     *)
InjectionFirst ==
  Stealth =>
    \A i \in DOMAIN upstream :
      upstream[i].from = "client" /\ upstream[i].session \in Pages =>
        \A k \in DOMAIN Batch :
          \E j \in 1..(i - 1) :
            /\ upstream[j].from = "eiger" /\ upstream[j].method = Batch[k]
            /\ upstream[j].session = upstream[i].session

(* Two batches, or a batch and the client's commands, do not mix.          *)
BatchesWhole ==
  \A i \in DOMAIN upstream, k \in 1..2 :
    upstream[i].method = Batch[k] /\ i < Len(upstream) =>
      /\ upstream[i + 1].method = Batch[k + 1]
      /\ upstream[i + 1].session = upstream[i].session

(* Between the client's last command and one that navigates a session      *)
(* Chrome has got the scripts for that session again.                      *)
NavigationReinjected ==
  \A i \in DOMAIN upstream :
    Stealth /\ upstream[i].from = "client" /\ upstream[i].method = "navigate"
            /\ upstream[i].session # NoSession =>
      \E j \in 1..(i - 1) :
        /\ upstream[j].method = "evaluate"
        /\ upstream[j].session = upstream[i].session
        /\ \A k \in j..(i - 1) : upstream[k].from = "eiger"

(* The client never sees an answer to a command it did not send.           *)
OwnAnswersHidden == \A i \in DOMAIN delivered : delivered[i].to # "eiger"

(* As long as the proxy runs no answer to the client is lost: once Chrome  *)
(* has executed a command the answer is on its way or delivered.           *)
AnswersKept ==
  \A i \in 1..executed :
    LET c == upstream[i] IN
    c.from = "client" /\ c.method # "close" /\ c.id < EigerIdStart =>
      \/ \E k \in DOMAIN downstream : downstream[k] = Answer(c)
      \/ \E k \in DOMAIN delivered : delivered[k] = Answer(c)

(* What the client sends reaches Chrome although the client reads nothing  *)
(* of what it is sent: upstream_to_client may be stuck for good, but not   *)
(* with the lock.                                                          *)
CommandForwarded ==
  pc["client"] \in {"inject", "pause", "forward"} ~>
    Ended \/ pc["client"] = "next"

(* The proxy returns when its client is gone, and when Chrome is, unless   *)
(* the client is there and does not read: SessionServer relies on it.      *)
ProxyReturns ==
  (gone \/ ~connected) /\ pc["client"] # "connect" ~>
    Ended \/ (~gone /\ Len(delivered) - seen = ClientBuffer)

=============================================================================
