--------------------------- MODULE CdpProxyProofs ---------------------------
(***************************************************************************)
(* Safety of the WebSocket proxy, for every set of commands and sessions   *)
(* and any size of the buffers.                                            *)
(***************************************************************************)
EXTENDS CdpProxy, FiniteSetTheorems, TLAPS

(* A half that has taken something still has it.                           *)
TakenInv ==
  /\ pc["client"] \in {"inject", "pause", "forward"} => taken > 0
  /\ pc["browser"] \in {"inject", "pause", "forward"} =>
       downstream # <<>> /\ ~IsEigerResponse(Head(downstream))

(* Nobody asks twice for the lock, and a half that pauses holds it.        *)
LockInv ==
  /\ \A i, j \in 1..Len(lock) : lock[i] = lock[j] => i = j
  /\ \A h \in Halves : pc[h] \in {"connect", "next"} =>
       \A i \in 1..Len(lock) : lock[i] # h
  /\ pc["browser"] = "forward" =>
       \A i \in 1..Len(lock) : lock[i] # "browser"
  /\ \A h \in Halves : pc[h] = "pause" => Holds(h)

ConnectInv == pc["client"] = "connect" => pc["browser"] = "connect"

ControlInv == ProxyTypeOK /\ TakenInv /\ LockInv /\ ConnectInv

----------------------------------------------------------------------------
(* Sequences *)

(* What stands where in a sequence that has been appended to.              *)
LEMMA Appended ==
  ASSUME NEW S, NEW seq \in Seq(S), NEW e \in S
  PROVE  /\ Append(seq, e) \in Seq(S)
         /\ Len(Append(seq, e)) = Len(seq) + 1
         /\ \A i \in 1..Len(seq) : Append(seq, e)[i] = seq[i]
         /\ Append(seq, e)[Len(seq) + 1] = e
OBVIOUS

(* What stands where in the rest of a sequence.                            *)
LEMMA Rest ==
  ASSUME NEW S, NEW seq \in Seq(S), seq # <<>>
  PROVE  /\ Tail(seq) \in Seq(S)
         /\ Len(Tail(seq)) = Len(seq) - 1
         /\ \A i \in 1..Len(Tail(seq)) : Tail(seq)[i] = seq[i + 1]
         /\ Head(seq) = seq[1] /\ Head(seq) \in S
OBVIOUS

(* Appending does not change the head.                                     *)
LEMMA HeadKept ==
  ASSUME NEW S, NEW seq \in Seq(S), NEW e \in S, seq # <<>>
  PROVE  Append(seq, e) # <<>> /\ Head(Append(seq, e)) = Head(seq)
OBVIOUS

(* The commands of a batch.                                                *)
LEMMA BatchIs ==
  /\ Len(Batch) = 3 /\ DOMAIN Batch = 1..3
  /\ Batch[1] = "enable" /\ Batch[2] = "addScript" /\ Batch[3] = "evaluate"
BY DEF Batch

----------------------------------------------------------------------------
(* Types and control *)

(* What a half that asks for the lock, or lets it go, does to the queue.   *)
LEMMA LockAsked ==
  ASSUME lock \in Seq(Halves), NEW h \in Halves,
         \A i, j \in 1..Len(lock) : lock[i] = lock[j] => i = j,
         \A i \in 1..Len(lock) : lock[i] # h
  PROVE  /\ Append(lock, h) \in Seq(Halves) /\ Len(Append(lock, h)) <= 2
         /\ \A i, j \in 1..Len(Append(lock, h)) :
              Append(lock, h)[i] = Append(lock, h)[j] => i = j
         /\ \A g \in Halves : Holds(g) => Head(Append(lock, h)) = g
         /\ \A g \in Halves : (\A i \in 1..Len(lock) : lock[i] # g) /\ g # h =>
              \A i \in 1..Len(Append(lock, h)) : Append(lock, h)[i] # g
<1>1. Len(lock) <= 1
  <2> SUFFICES ASSUME Len(lock) >= 2 PROVE FALSE
    OBVIOUS
  <2>1. lock[1] \in Halves /\ lock[2] \in Halves /\ lock[1] # lock[2]
        /\ lock[1] # h /\ lock[2] # h
    OBVIOUS
  <2> QED
    BY <2>1 DEF Halves
<1>2. /\ Append(lock, h) \in Seq(Halves)
      /\ Len(Append(lock, h)) = Len(lock) + 1
      /\ \A i \in 1..Len(lock) : Append(lock, h)[i] = lock[i]
      /\ Append(lock, h)[Len(lock) + 1] = h
  BY Appended
<1>3. \A i \in 1..Len(Append(lock, h)) : i \in 1..Len(lock) \/ i = Len(lock) + 1
  BY <1>2
<1>4. \A g \in Halves : Holds(g) => Head(Append(lock, h)) = g
  BY HeadKept DEF Holds
<1> QED
  BY <1>1, <1>2, <1>3, <1>4

(* The rest of the queue.                                                  *)
LEMMA LockReleased ==
  ASSUME lock \in Seq(Halves), lock # <<>>, Len(lock) <= 2,
         \A i, j \in 1..Len(lock) : lock[i] = lock[j] => i = j
  PROVE  /\ Tail(lock) \in Seq(Halves) /\ Len(Tail(lock)) <= 1
         /\ \A i, j \in 1..Len(Tail(lock)) :
              Tail(lock)[i] = Tail(lock)[j] => i = j
         /\ \A i \in 1..Len(Tail(lock)) : Tail(lock)[i] # Head(lock)
         /\ \A g \in Halves : (\A i \in 1..Len(lock) : lock[i] # g) =>
              \A i \in 1..Len(Tail(lock)) : Tail(lock)[i] # g
<1>1. /\ Tail(lock) \in Seq(Halves) /\ Len(Tail(lock)) = Len(lock) - 1
      /\ \A i \in 1..Len(Tail(lock)) : Tail(lock)[i] = lock[i + 1]
      /\ Head(lock) = lock[1]
  BY Rest
<1> QED
  BY <1>1

(* The session that a half injects into is one.                            *)
LEMMA SessionsTyped ==
  ASSUME ControlInv
  PROVE  /\ pc["client"] = "inject" =>
              sent[taken].session \in Sessions \cup {NoSession}
         /\ pc["browser"] = "inject" =>
              Head(downstream).session \in Sessions \cup {NoSession}
<1>1. ASSUME pc["client"] = "inject"
      PROVE  sent[taken].session \in Sessions \cup {NoSession}
  <2>1. sent[taken] \in Commands
    BY <1>1 DEF ControlInv, TakenInv, ProxyTypeOK
  <2> QED
    BY <2>1, ProxyAssumption
<1>2. ASSUME pc["browser"] = "inject"
      PROVE  Head(downstream).session \in Sessions \cup {NoSession}
  <2>1. Head(downstream) \in Messages
    BY <1>2, Rest DEF ControlInv, TakenInv, ProxyTypeOK
  <2> QED
    BY <2>1 DEF Messages
<1> QED
  BY <1>1, <1>2

(* Nothing has happened yet.                                               *)
LEMMA ControlInitial ==
  ASSUME NEW at \in {"connect", "done"}, ProxyStart(at)
  PROVE  ControlInv
<1> USE DEF ProxyStart
<1>1. pc \in [Halves -> HalfPCs] /\ batch \in [Halves -> 0..2]
  BY DEF HalfPCs
<1>0. lock = <<>> /\ Len(lock) = 0 /\ Len(sent) = 0 /\ Len(upstream) = 0
      /\ Len(delivered) = 0
  OBVIOUS
<1>7. /\ sent \in Seq(Commands) /\ lock \in Seq(Halves)
       /\ upstream \in Seq(Commands \cup EigerCommands)
       /\ downstream \in Seq(Messages) /\ delivered \in Seq(Messages)
  OBVIOUS
<1>8. /\ taken \in 0..Len(sent) /\ executed \in 0..Len(upstream)
       /\ seen \in 0..Len(delivered) /\ Len(lock) <= 2
  BY <1>0
<1>4. gone \in BOOLEAN /\ connected \in BOOLEAN /\ attached \subseteq Sessions
  OBVIOUS
<1>5. nextId \in Nat /\ nextId >= EigerIdStart
  <2>1. nextId = EigerIdStart
    OBVIOUS
  <2>2. EigerIdStart \in Nat
    BY ProxyAssumption
  <2> QED
    BY ONLY <2>1, <2>2
<1>2. ProxyTypeOK
  BY <1>1, <1>7, <1>8, <1>4, <1>5 DEF ProxyTypeOK
<1>3. TakenInv /\ LockInv /\ ConnectInv
  BY DEF TakenInv, LockInv, ConnectInv, Halves
<1> QED
  BY <1>2, <1>3 DEF ControlInv

(* A command of a batch stands in the place that the lock keeps for it.    *)
LEMMA ControlSend ==
  ASSUME ControlInv, NEW h \in Halves,
         NEW s \in Sessions \cup {NoSession}, SendStealthCommand(h, s)
  PROVE  ControlInv'
<1> DEFINE c == [from |-> "eiger", id |-> nextId, session |-> s,
                 method |-> Batch[batch[h] + 1]]
<1> USE DEF ControlInv
<1>1. c \in EigerCommands
  <2>1. nextId \in Nat /\ batch[h] + 1 \in 1..3
    BY DEF ProxyTypeOK
  <2>2. Batch[batch[h] + 1] \in {"enable", "addScript", "evaluate"}
    BY <2>1, BatchIs
  <2> HIDE DEF ControlInv
  <2> QED
    BY <2>1, <2>2 DEF EigerCommands
<1>2. upstream' \in Seq(Commands \cup EigerCommands)
      /\ Len(upstream') = Len(upstream) + 1
  <2>1. upstream' = Append(upstream, c)
    BY DEF SendStealthCommand
  <2> QED
    BY <1>1, <2>1 DEF ProxyTypeOK
<1>3. ProxyTypeOK'
  <2>6. batch[h] \in 0..2
    BY DEF ProxyTypeOK
  <2>0. batch[h] + 1 # Len(Batch) => batch[h] + 1 \in 0..2
    BY <2>6, BatchIs
  <2>1. lock' = lock
    BY DEF SendStealthCommand, LockInBatch
  <2>2. batch' \in [Halves -> 0..2]
    <3>1. CASE batch' = [batch EXCEPT ![h] = 0]
      BY <3>1 DEF ProxyTypeOK
    <3>2. CASE batch[h] + 1 # Len(Batch)
               /\ batch' = [batch EXCEPT ![h] = batch[h] + 1]
      BY <2>0, <3>2 DEF ProxyTypeOK
    <3> QED
      BY <3>1, <3>2 DEF SendStealthCommand
  <2>3. pc' \in [Halves -> HalfPCs]
    BY DEF SendStealthCommand, ProxyTypeOK, HalfPCs, Goto
  <2>4. nextId' \in Nat /\ nextId' >= EigerIdStart
    BY ProxyAssumption DEF SendStealthCommand, ProxyTypeOK
  <2>5. executed' \in 0..Len(upstream')
    BY <1>2 DEF SendStealthCommand, chromeVars, ProxyTypeOK
  <2> QED
    BY <1>2, <2>1, <2>2, <2>3, <2>4, <2>5
    DEF SendStealthCommand, ProxyTypeOK, clientVars, chromeVars
<1>4. TakenInv' /\ ConnectInv'
  BY DEF SendStealthCommand, Proxying, Goto, TakenInv, ConnectInv, ProxyTypeOK,
         IsEigerResponse, Halves
<1>5. LockInv'
  BY DEF SendStealthCommand, Proxying, Goto, LockInv, ProxyTypeOK, LockInBatch,
         Holds, Halves
<1> QED
  BY <1>3, <1>4, <1>5

(* The client's half keeps the invariant: it asks for the lock when it has *)
(* taken something, and lets it go when it has sent it.                    *)
LEMMA ControlClientHalf ==
  ASSUME ControlInv, ClientHalf
  PROVE  ControlInv'
<1> USE DEF ControlInv
<1>1. "client" \in Halves
  BY DEF Halves
<1>2. CASE TakeCommand \/ BeginClose
  <2>1. pc["client"] = "next" /\ lock' = Append(lock, "client")
        /\ \A i \in 1..Len(lock) : lock[i] # "client"
    BY <1>1, <1>2 DEF TakeCommand, BeginClose, Proxying, LockInv
  <2>2. pc' \in [Halves -> HalfPCs] /\ pc'["client"] # "pause"
        /\ pc'["client"] \notin {"connect", "next"}
        /\ pc'["browser"] = pc["browser"]
    BY <1>2 DEF TakeCommand, BeginClose, Goto, ProxyTypeOK, HalfPCs, Halves
  <2>3. taken' \in 0..Len(sent)
        /\ (pc'["client"] \in {"inject", "forward"} => taken' > 0)
    BY <1>2 DEF TakeCommand, BeginClose, Goto, ProxyTypeOK, Halves
  <2>4. UNCHANGED <<clientVars, batch, nextId, wireVars, chromeVars>>
    BY <1>2 DEF TakeCommand, BeginClose
  <2>5. /\ lock' \in Seq(Halves) /\ Len(lock') <= 2
        /\ \A i, j \in 1..Len(lock') : lock'[i] = lock'[j] => i = j
        /\ \A g \in Halves : Holds(g) => Holds(g)'
        /\ (\A i \in 1..Len(lock) : lock[i] # "browser") =>
              \A i \in 1..Len(lock') : lock'[i] # "browser"
    <3>1. lock \in Seq(Halves) /\ "browser" \in Halves
          /\ \A i, j \in 1..Len(lock) : lock[i] = lock[j] => i = j
      BY DEF LockInv, ProxyTypeOK, Halves
    <3>2. lock # <<>> => Append(lock, "client") # <<>>
      BY <3>1, <1>1, HeadKept
    <3> QED
      BY <1>1, <2>1, <3>1, <3>2, LockAsked DEF Holds
  <2>6. ProxyTypeOK'
    BY <2>2, <2>3, <2>4, <2>5
    DEF ProxyTypeOK, clientVars, wireVars, chromeVars
  <2>7. TakenInv' /\ ConnectInv'
    BY <2>1, <2>2, <2>3, <2>4 DEF TakenInv, ConnectInv, wireVars, IsEigerResponse
  <2>8. LockInv'
    BY <2>1, <2>2, <2>5 DEF LockInv, Halves
  <2> QED
    BY <2>6, <2>7, <2>8
<1>3. CASE ReinjectStealth
  <2>1. pc["client"] = "inject"
    BY <1>3 DEF ReinjectStealth, SendStealthCommand, Proxying
  <2> QED
    BY <1>1, <1>3, <2>1, SessionsTyped, ControlSend DEF ReinjectStealth
<1>4. CASE EndPause \/ ForwardCommand
  <2>1. Holds("client") /\ pc["client"] \in {"pause", "forward"}
    BY <1>1, <1>4 DEF EndPause, ForwardCommand, Proxying, LockInv
  <2>2. /\ lock \in Seq(Halves) /\ Len(lock) <= 2 /\ lock # <<>>
        /\ Head(lock) = "client" /\ Head(lock) = lock[1]
        /\ \A i, j \in 1..Len(lock) : lock[i] = lock[j] => i = j
    BY <2>1, Rest DEF Holds, LockInv, ProxyTypeOK
  <2>3. /\ Tail(lock) \in Seq(Halves) /\ Len(Tail(lock)) <= 1
        /\ \A i, j \in 1..Len(Tail(lock)) :
             Tail(lock)[i] = Tail(lock)[j] => i = j
        /\ \A i \in 1..Len(Tail(lock)) : Tail(lock)[i] # "client"
        /\ \A g \in Halves : (\A i \in 1..Len(lock) : lock[i] # g) =>
              \A i \in 1..Len(Tail(lock)) : Tail(lock)[i] # g
    BY <2>2, LockReleased
  <2>4. pc["browser"] # "pause"
    BY <2>1 DEF LockInv, Holds, Halves
  <2>5. /\ lock' \in Seq(Halves) /\ Len(lock') <= 2
        /\ \A i, j \in 1..Len(lock') : lock'[i] = lock'[j] => i = j
        /\ (\A i \in 1..Len(lock) : lock[i] # "browser") =>
              \A i \in 1..Len(lock') : lock'[i] # "browser"
        /\ pc'["client"] = "next" =>
              \A i \in 1..Len(lock') : lock'[i] # "client"
    <3>1. CASE EndPause
      <4>1. lock' = Append(Tail(lock), "client") /\ pc'["client"] = "forward"
        BY <3>1 DEF EndPause, Goto, ProxyTypeOK, Halves
      <4>2. /\ Len(lock') = Len(Tail(lock)) + 1 /\ lock' \in Seq(Halves)
            /\ \A i \in 1..Len(Tail(lock)) : lock'[i] = Tail(lock)[i]
            /\ lock'[Len(Tail(lock)) + 1] = "client"
        BY <1>1, <2>3, <4>1, Appended
      <4>3. \A i \in 1..Len(lock') :
              i \in 1..Len(Tail(lock)) \/ i = Len(Tail(lock)) + 1
        BY <2>3, <4>2
      <4>4. "browser" \in Halves /\ "browser" # "client"
        BY DEF Halves
      <4> QED
        BY <2>3, <4>1, <4>2, <4>3, <4>4
    <3>2. CASE ForwardCommand
      BY <2>3, <3>2 DEF ForwardCommand, Halves
    <3> QED
      BY <1>4, <3>1, <3>2
  <2>6. pc' \in [Halves -> HalfPCs] /\ pc'["client"] \in {"forward", "next"}
        /\ pc'["browser"] = pc["browser"]
    BY <1>4 DEF EndPause, ForwardCommand, Goto, ProxyTypeOK, HalfPCs, Halves
  <2>7. UNCHANGED <<clientVars, taken, batch, nextId, downstream, delivered,
                    chromeVars>>
    BY <1>4 DEF EndPause, ForwardCommand, wireVars
  <2>8. upstream' \in Seq(Commands \cup EigerCommands)
        /\ Len(upstream') >= Len(upstream)
    <3>1. sent[taken] \in Commands /\ upstream \in Seq(Commands \cup EigerCommands)
      BY <2>1 DEF ProxyTypeOK, TakenInv
    <3>2. upstream' = upstream \/ upstream' = Append(upstream, sent[taken])
      BY <1>4 DEF EndPause, ForwardCommand, wireVars
    <3> QED
      BY <3>1, <3>2
  <2>9. ProxyTypeOK'
    <3>1. executed' \in 0..Len(upstream')
      BY <2>7, <2>8 DEF ProxyTypeOK, chromeVars
    <3> QED
      BY <2>5, <2>6, <2>7, <2>8, <3>1 DEF ProxyTypeOK, clientVars, chromeVars
  <2>10. TakenInv' /\ ConnectInv'
    BY <2>1, <2>6, <2>7 DEF TakenInv, ConnectInv, IsEigerResponse
  <2>11. LockInv'
    BY <2>4, <2>5, <2>6 DEF LockInv, Halves
  <2> QED
    BY <2>9, <2>10, <2>11
<1>5. CASE SendFails("client") \/ CloseUpstream
  <2>1. pc' \in [Halves -> HalfPCs] /\ pc'["client"] = "done"
        /\ pc'["browser"] = pc["browser"]
    BY <1>5 DEF SendFails, CloseUpstream, Goto, ProxyTypeOK, HalfPCs, Halves
  <2>2. UNCHANGED <<clientVars, taken, lock, batch, nextId, wireVars, chromeVars>>
    BY <1>5 DEF SendFails, CloseUpstream
  <2>3. ProxyTypeOK'
    BY <2>1, <2>2 DEF ProxyTypeOK, clientVars, wireVars, chromeVars
  <2>4. TakenInv' /\ ConnectInv' /\ LockInv'
    BY <2>1, <2>2
    DEF TakenInv, ConnectInv, LockInv, Holds, Halves, wireVars, IsEigerResponse
  <2> QED
    BY <2>3, <2>4
<1> QED
  BY <1>2, <1>3, <1>4, <1>5 DEF ClientHalf

(* What Chrome has sent and the proxy not taken loses its first message.   *)
LEMMA MessageDone ==
  ASSUME ProxyTypeOK, downstream # <<>>
  PROVE  Tail(downstream) \in Seq(Messages) /\ Head(downstream) \in Messages
BY Rest DEF ProxyTypeOK

(* The browser's half keeps the invariant: the message that it is at work  *)
(* on stays the first one.                                                 *)
LEMMA ControlBrowserHalf ==
  ASSUME ControlInv, BrowserHalf
  PROVE  ControlInv'
<1> USE DEF ControlInv
<1>1. "browser" \in Halves
  BY DEF Halves
<1>2. CASE HideAnswer
  <2>1. pc["browser"] = "next" /\ downstream # <<>>
        /\ downstream' = Tail(downstream)
        /\ UNCHANGED <<clientVars, proxyVars, upstream, delivered, chromeVars>>
    BY <1>2 DEF HideAnswer, Proxying
  <2>2. ProxyTypeOK'
    BY <2>1, MessageDone DEF ProxyTypeOK, clientVars, proxyVars, chromeVars
  <2>3. TakenInv' /\ ConnectInv' /\ LockInv'
    BY <2>1 DEF TakenInv, ConnectInv, LockInv, Holds, proxyVars
  <2> QED
    BY <2>2, <2>3
<1>3. CASE TakeMessage
  <2>1. /\ pc["browser"] = "next" /\ downstream # <<>>
        /\ ~IsEigerResponse(Head(downstream))
        /\ UNCHANGED <<clientVars, taken, batch, nextId, wireVars, chromeVars>>
        /\ \A i \in 1..Len(lock) : lock[i] # "browser"
    BY <1>1, <1>3 DEF TakeMessage, Proxying, LockInv
  <2>2. pc' \in [Halves -> HalfPCs] /\ pc'["browser"] \in {"inject", "forward"}
        /\ pc'["client"] = pc["client"]
        /\ (pc'["browser"] = "inject" => lock' = Append(lock, "browser"))
        /\ (pc'["browser"] = "forward" => lock' = lock)
    BY <1>3 DEF TakeMessage, Goto, ProxyTypeOK, HalfPCs, Halves
  <2>3. /\ lock' \in Seq(Halves) /\ Len(lock') <= 2
        /\ \A i, j \in 1..Len(lock') : lock'[i] = lock'[j] => i = j
        /\ \A g \in Halves : Holds(g) => Holds(g)'
        /\ (\A i \in 1..Len(lock) : lock[i] # "client") =>
              \A i \in 1..Len(lock') : lock'[i] # "client"
    <3>1. lock \in Seq(Halves) /\ "client" \in Halves /\ Len(lock) <= 2
          /\ \A i, j \in 1..Len(lock) : lock[i] = lock[j] => i = j
      BY DEF LockInv, ProxyTypeOK, Halves
    <3>2. CASE pc'["browser"] = "inject"
      <4>1. lock # <<>> => Append(lock, "browser") # <<>>
        BY <3>1, <1>1, HeadKept
      <4> QED
        BY <1>1, <2>1, <2>2, <3>1, <3>2, <4>1, LockAsked DEF Holds
    <3>3. CASE pc'["browser"] = "forward"
      BY <2>2, <3>1, <3>3 DEF Holds
    <3> QED
      BY <2>2, <3>2, <3>3
  <2>4. ProxyTypeOK'
    BY <2>1, <2>2, <2>3 DEF ProxyTypeOK, clientVars, wireVars, chromeVars
  <2>5. TakenInv' /\ ConnectInv'
    <3>1. pc["client"] = "connect" => FALSE
      BY <2>1 DEF ConnectInv
    <3> QED
      BY <2>1, <2>2, <3>1 DEF TakenInv, ConnectInv, wireVars, IsEigerResponse
  <2>6. LockInv'
    BY <2>1, <2>2, <2>3 DEF LockInv, Halves
  <2> QED
    BY <2>4, <2>5, <2>6
<1>4. CASE InjectStealth
  <2>1. pc["browser"] = "inject"
    BY <1>4 DEF InjectStealth, SendStealthCommand, Proxying
  <2> QED
    BY <1>1, <1>4, <2>1, SessionsTyped, ControlSend DEF InjectStealth
<1>5. CASE InjectionReturns
  <2>1. pc["browser"] = "pause" /\ Holds("browser") /\ lock' = Tail(lock)
        /\ UNCHANGED <<clientVars, taken, batch, nextId, wireVars, chromeVars>>
    BY <1>1, <1>5 DEF InjectionReturns, Proxying, LockInv, GuardDropped
  <2>2. pc' \in [Halves -> HalfPCs] /\ pc'["browser"] = "forward"
        /\ pc'["client"] = pc["client"]
    BY <1>5 DEF InjectionReturns, Goto, ProxyTypeOK, HalfPCs, Halves
  <2>3. /\ lock \in Seq(Halves) /\ Len(lock) <= 2 /\ lock # <<>>
        /\ Head(lock) = "browser"
        /\ \A i, j \in 1..Len(lock) : lock[i] = lock[j] => i = j
    BY <2>1 DEF Holds, LockInv, ProxyTypeOK
  <2>4. /\ lock' \in Seq(Halves) /\ Len(lock') <= 1
        /\ \A i, j \in 1..Len(lock') : lock'[i] = lock'[j] => i = j
        /\ \A i \in 1..Len(lock') : lock'[i] # "browser"
        /\ \A g \in Halves : (\A i \in 1..Len(lock) : lock[i] # g) =>
              \A i \in 1..Len(lock') : lock'[i] # g
    BY <2>1, <2>3, LockReleased
  <2>5. pc["client"] # "pause"
    BY <2>1 DEF LockInv, Holds, Halves
  <2>6. ProxyTypeOK'
    BY <2>1, <2>2, <2>4 DEF ProxyTypeOK, clientVars, wireVars, chromeVars
  <2>7. TakenInv' /\ ConnectInv'
    BY <2>1, <2>2 DEF TakenInv, ConnectInv, wireVars, IsEigerResponse
  <2>8. LockInv'
    BY <2>2, <2>4, <2>5 DEF LockInv, Halves
  <2> QED
    BY <2>6, <2>7, <2>8
<1>6. CASE ForwardMessage
  <2>1. /\ pc["browser"] = "forward" /\ downstream # <<>>
        /\ UNCHANGED <<clientVars, taken, lock, batch, nextId, upstream,
                       chromeVars>>
    BY <1>6 DEF ForwardMessage, Proxying, TakenInv
  <2>2. pc' \in [Halves -> HalfPCs] /\ pc'["browser"] \in {"done", "next"}
        /\ pc'["client"] = pc["client"]
    BY <1>6 DEF ForwardMessage, Goto, ProxyTypeOK, HalfPCs, Halves
  <2>3. downstream' \in Seq(Messages) /\ delivered' \in Seq(Messages)
        /\ Len(delivered') >= Len(delivered)
    <3>1. delivered \in Seq(Messages) /\ downstream \in Seq(Messages)
          /\ Head(downstream) \in Messages /\ Tail(downstream) \in Seq(Messages)
      BY <2>1, MessageDone DEF ProxyTypeOK
    <3>2. \/ UNCHANGED <<downstream, delivered>>
          \/ /\ delivered' = Append(delivered, Head(downstream))
             /\ downstream' = Tail(downstream)
      BY <1>6 DEF ForwardMessage
    <3>3. CASE UNCHANGED <<downstream, delivered>>
      BY <3>1, <3>3
    <3>4. CASE /\ delivered' = Append(delivered, Head(downstream))
               /\ downstream' = Tail(downstream)
      BY <3>1, <3>4, Appended
    <3> QED
      BY <3>2, <3>3, <3>4
  <2>4. ProxyTypeOK'
    <3>1. seen' \in 0..Len(delivered')
      BY <2>1, <2>3 DEF ProxyTypeOK, clientVars
    <3> QED
      BY <2>1, <2>2, <2>3, <3>1 DEF ProxyTypeOK, clientVars, chromeVars
  <2>5. TakenInv' /\ ConnectInv' /\ LockInv'
    BY <2>1, <2>2 DEF TakenInv, ConnectInv, LockInv, Holds, Halves
  <2> QED
    BY <2>4, <2>5
<1>7. CASE SendFails("browser") \/ UpstreamEnds
  <2>1. pc' \in [Halves -> HalfPCs] /\ pc'["browser"] = "done"
        /\ pc'["client"] = pc["client"] /\ pc["browser"] \in {"inject", "next"}
    BY <1>7
    DEF SendFails, UpstreamEnds, Proxying, Goto, ProxyTypeOK, HalfPCs, Halves
  <2>2. UNCHANGED <<clientVars, taken, lock, batch, nextId, wireVars, chromeVars>>
    BY <1>7 DEF SendFails, UpstreamEnds
  <2>3. ProxyTypeOK'
    BY <2>1, <2>2 DEF ProxyTypeOK, clientVars, wireVars, chromeVars
  <2>4. TakenInv' /\ ConnectInv' /\ LockInv'
    BY <2>1, <2>2
    DEF TakenInv, ConnectInv, LockInv, Holds, Halves, wireVars, IsEigerResponse
  <2> QED
    BY <2>3, <2>4
<1> QED
  BY <1>2, <1>3, <1>4, <1>5, <1>6, <1>7 DEF BrowserHalf

(* The client, Chrome and the connection only add to what is sent.         *)
LEMMA ControlOthers ==
  ASSUME ControlInv,
         Connect \/ Client \/ Execute \/ Disconnect
           \/ (\E s \in Sessions : Attach(s))
  PROVE  ControlInv'
<1> USE DEF ControlInv
<1>1. CASE Connect
  <2>0. pc' \in [Halves -> HalfPCs]
    BY <1>1 DEF Connect, HalfPCs
  <2>1. /\ \A h \in Halves : pc[h] = "connect" /\ pc'[h] # "connect"
        /\ \A h \in Halves : pc'[h] \in {"next", "done"}
    BY <1>1 DEF Connect, ConnectInv, Halves
  <2>2. UNCHANGED <<clientVars, taken, lock, batch, nextId, wireVars, chromeVars>>
    BY <1>1 DEF Connect
  <2>3. ProxyTypeOK'
    BY <2>0, <2>2 DEF ProxyTypeOK, clientVars, wireVars, chromeVars
  <2>4. TakenInv' /\ ConnectInv' /\ LockInv'
    BY <2>1, <2>2 DEF TakenInv, ConnectInv, LockInv, Holds, Halves
  <2> QED
    BY <2>3, <2>4
<1>2. CASE Client
  <2>1. UNCHANGED <<proxyVars, wireVars, chromeVars>>
    BY <1>2 DEF Client, ClientReads, ClientLeaves, ClientSends
  <2>2. /\ sent' \in Seq(Commands) /\ Len(sent') >= Len(sent)
        /\ seen' \in 0..Len(delivered) /\ gone' \in BOOLEAN
    <3>1. sent \in Seq(Commands) /\ seen \in 0..Len(delivered)
          /\ gone \in BOOLEAN /\ Len(delivered) \in Nat
      BY DEF ProxyTypeOK
    <3>2. CASE ClientReads
      BY <3>1, <3>2 DEF ClientReads
    <3>3. CASE ClientLeaves
      BY <3>1, <3>3 DEF ClientLeaves
    <3>4. ASSUME NEW c \in Commands, ClientSends(c)
          PROVE  sent' \in Seq(Commands) /\ Len(sent') >= Len(sent)
                 /\ UNCHANGED <<seen, gone>>
      BY <3>1, <3>4, Appended DEF ClientSends
    <3> QED
      BY <1>2, <3>1, <3>2, <3>3, <3>4 DEF Client
  <2>3. ProxyTypeOK'
    <3>1. taken' \in 0..Len(sent')
      BY <2>1, <2>2 DEF ProxyTypeOK, proxyVars
    <3> QED
      BY <2>1, <2>2, <3>1 DEF ProxyTypeOK, proxyVars, wireVars, chromeVars
  <2>4. TakenInv' /\ ConnectInv' /\ LockInv'
    BY <2>1
    DEF TakenInv, ConnectInv, LockInv, Holds, proxyVars, wireVars,
        IsEigerResponse
  <2> QED
    BY <2>3, <2>4
<1>3. CASE Execute \/ Disconnect \/ \E s \in Sessions : Attach(s)
  <2>1. UNCHANGED <<clientVars, proxyVars, upstream, delivered>>
    BY <1>3 DEF Execute, Disconnect, Attach, wireVars
  <2>2. /\ executed' \in 0..Len(upstream) /\ connected' \in BOOLEAN
        /\ attached' \subseteq Sessions
    <3>1. executed \in 0..Len(upstream) /\ connected \in BOOLEAN
          /\ attached \subseteq Sessions /\ Len(upstream) \in Nat
      BY DEF ProxyTypeOK
    <3>2. CASE Execute
      <4>1. executed < Len(upstream) /\ executed' = executed + 1
            /\ UNCHANGED attached
        BY <3>2 DEF Execute
      <4>2. connected' = FALSE \/ connected' = connected
        BY <3>2 DEF Execute
      <4>3. executed' \in 0..Len(upstream)
        BY <3>1, <4>1
      <4>4. connected' \in BOOLEAN
        BY <3>1, <4>2
      <4> QED
        BY <3>1, <4>1, <4>3, <4>4
    <3>3. CASE Disconnect
      BY <3>1, <3>3 DEF Disconnect
    <3>4. CASE \E s \in Sessions : Attach(s)
      BY <3>1, <3>4 DEF Attach
    <3> QED
      BY <1>3, <3>2, <3>3, <3>4
  <2>3. /\ downstream' \in Seq(Messages)
        /\ downstream # <<>> =>
             downstream' # <<>> /\ Head(downstream') = Head(downstream)
    <3>1. downstream' = downstream
          \/ \E m \in Messages : downstream' = Append(downstream, m)
      <4>1. CASE Execute
        <5>1. upstream[executed + 1] \in Commands \cup EigerCommands
          BY <4>1 DEF Execute, ProxyTypeOK
        <5>2. Answer(upstream[executed + 1]) \in Messages
          BY <5>1, ProxyAssumption DEF Answer, Messages, EigerCommands
        <5> QED
          BY <4>1, <5>2 DEF Execute
      <4>2. CASE \E s \in Sessions : Attach(s)
        <5>1. \A s \in Sessions : AttachedToTarget(s) \in Messages
          BY DEF AttachedToTarget, Messages
        <5> QED
          BY <4>2, <5>1 DEF Attach
      <4> QED
        BY <1>3, <4>1, <4>2 DEF Disconnect, wireVars
    <3>2. downstream \in Seq(Messages)
      BY DEF ProxyTypeOK
    <3> QED
      BY <3>1, <3>2, HeadKept, Appended
  <2>4. ProxyTypeOK'
    BY <2>1, <2>2, <2>3 DEF ProxyTypeOK, clientVars, proxyVars
  <2>5. TakenInv' /\ ConnectInv' /\ LockInv'
    BY <2>1, <2>3
    DEF TakenInv, ConnectInv, LockInv, Holds, proxyVars, IsEigerResponse
  <2> QED
    BY <2>4, <2>5
<1> QED
  BY <1>1, <1>2, <1>3

(* Every step keeps the invariant.                                         *)
LEMMA ControlStep == ControlInv /\ [ProxyNext]_cdpVars => ControlInv'
<1> SUFFICES ASSUME ControlInv, [ProxyNext]_cdpVars PROVE ControlInv'
  OBVIOUS
<1>1. CASE ProxyNext
  BY <1>1, ControlClientHalf, ControlBrowserHalf, ControlOthers DEF ProxyNext
<1>2. CASE UNCHANGED cdpVars
  BY <1>2
  DEF cdpVars, clientVars, proxyVars, wireVars, chromeVars, ControlInv,
      ProxyTypeOK, TakenInv, LockInv, ConnectInv, Holds, IsEigerResponse
<1> QED
  BY <1>1, <1>2

----------------------------------------------------------------------------
(* Answers *)

(* What Eiger sends, and what Chrome answers to it, has an id of Eiger's.  *)
OwnInv ==
  /\ \A i \in 1..Len(upstream) :
       upstream[i].from = "eiger" => upstream[i].id >= EigerIdStart
  /\ \A i \in 1..Len(downstream) :
       downstream[i].to = "eiger" => IsEigerResponse(downstream[i])
  /\ \A i \in 1..Len(delivered) : delivered[i].to # "eiger"

(* What Chrome's steps add to the messages on their way.                   *)
LEMMA ChromeAdds ==
  ASSUME ControlInv
  PROVE  /\ Execute =>
              /\ executed + 1 \in 1..Len(upstream)
              /\ upstream[executed + 1] \in Commands \cup EigerCommands
              /\ Answer(upstream[executed + 1]) \in Messages
         /\ \A s \in Sessions : AttachedToTarget(s) \in Messages
<1>1. ASSUME Execute
      PROVE  /\ executed + 1 \in 1..Len(upstream)
             /\ upstream[executed + 1] \in Commands \cup EigerCommands
             /\ Answer(upstream[executed + 1]) \in Messages
  <2>1. executed + 1 \in 1..Len(upstream)
        /\ upstream \in Seq(Commands \cup EigerCommands)
    BY <1>1 DEF Execute, ControlInv, ProxyTypeOK
  <2>2. upstream[executed + 1] \in Commands \cup EigerCommands
    BY <2>1
  <2> QED
    BY <2>1, <2>2, ProxyAssumption DEF Answer, Messages, EigerCommands
<1>2. \A s \in Sessions : AttachedToTarget(s) \in Messages
  BY DEF AttachedToTarget, Messages
<1> QED
  BY <1>1, <1>2

(* The three sequences that carry commands and messages, step by step: in  *)
(* which of them a step adds or takes something.                           *)
LEMMA WireSteps ==
  ASSUME ControlInv, ProxyNext
  PROVE  \/ UNCHANGED wireVars
         \/ /\ \/ ReinjectStealth \/ InjectStealth \/ ForwardCommand
            /\ UNCHANGED <<downstream, delivered>>
         \/ /\ HideAnswer \/ ForwardMessage
            /\ UNCHANGED upstream
         \/ /\ Execute \/ \E s \in Sessions : Attach(s)
            /\ UNCHANGED <<upstream, delivered>>
<1> USE DEF wireVars
<1>1. CASE Connect \/ Client \/ Disconnect
  BY <1>1 DEF Connect, Client, ClientReads, ClientLeaves, ClientSends, Disconnect
<1>2. CASE Execute \/ \E s \in Sessions : Attach(s)
  BY <1>2 DEF Execute, Attach
<1>3. CASE ClientHalf
  BY <1>3
  DEF ClientHalf, TakeCommand, ReinjectStealth, EndPause, ForwardCommand,
      SendFails, BeginClose, CloseUpstream, SendStealthCommand
<1>4. CASE BrowserHalf
  BY <1>4
  DEF BrowserHalf, HideAnswer, TakeMessage, InjectStealth, InjectionReturns,
      ForwardMessage, SendFails, UpstreamEnds, SendStealthCommand
<1> QED
  BY <1>1, <1>2, <1>3, <1>4 DEF ProxyNext

(* A command sent to Chrome: Eiger's next, or the client's last one taken. *)
LEMMA UpstreamSteps ==
  ASSUME ControlInv, ReinjectStealth \/ InjectStealth \/ ForwardCommand
  PROVE  \E c \in Commands \cup EigerCommands :
           /\ upstream' = Append(upstream, c)
           /\ \/ c.from = "eiger" /\ c.id >= EigerIdStart
              \/ ForwardCommand /\ c = sent[taken] /\ c.from = "client"
<1> USE DEF ControlInv
<1>1. ASSUME NEW h \in Halves, NEW s \in Sessions \cup {NoSession},
             SendStealthCommand(h, s)
      PROVE  \E c \in EigerCommands :
               upstream' = Append(upstream, c) /\ c.from = "eiger"
                 /\ c.id >= EigerIdStart
  <2> DEFINE c == [from |-> "eiger", id |-> nextId, session |-> s,
                   method |-> Batch[batch[h] + 1]]
  <2>1. c \in EigerCommands
    <3>1. batch[h] \in 0..2 /\ nextId \in Nat
      BY DEF ProxyTypeOK
    <3>2. Batch[batch[h] + 1] \in {"enable", "addScript", "evaluate"}
      BY <3>1, BatchIs
    <3> QED
      BY <3>1, <3>2 DEF EigerCommands
  <2>2. c.from = "eiger" /\ c.id >= EigerIdStart
    BY DEF ProxyTypeOK
  <2>3. upstream' = Append(upstream, c)
    BY <1>1 DEF SendStealthCommand
  <2> QED
    BY <2>1, <2>2, <2>3
<1>2. CASE ReinjectStealth
  <2>1. pc["client"] = "inject" /\ "client" \in Halves
    BY <1>2 DEF ReinjectStealth, SendStealthCommand, Proxying, Halves
  <2> QED
    BY <1>1, <1>2, <2>1, SessionsTyped DEF ReinjectStealth
<1>3. CASE InjectStealth
  <2>1. pc["browser"] = "inject" /\ "browser" \in Halves
    BY <1>3 DEF InjectStealth, SendStealthCommand, Proxying, Halves
  <2> QED
    BY <1>1, <1>3, <2>1, SessionsTyped DEF InjectStealth
<1>4. CASE ForwardCommand
  <2>1. sent[taken] \in Commands
    BY <1>4 DEF ForwardCommand, Proxying, ProxyTypeOK, TakenInv
  <2>2. sent[taken].from = "client"
    BY <2>1, ProxyAssumption
  <2> QED
    BY <1>4, <2>1, <2>2 DEF ForwardCommand
<1> QED
  BY <1>2, <1>3, <1>4

(* Ids stay apart, and only answers to the client pass the filter.         *)
LEMMA OwnStep == ControlInv /\ OwnInv /\ [ProxyNext]_cdpVars => OwnInv'
<1> SUFFICES ASSUME ControlInv, OwnInv, [ProxyNext]_cdpVars PROVE OwnInv'
  OBVIOUS
<1> USE DEF ControlInv
<1>1. CASE UNCHANGED wireVars
  BY <1>1 DEF OwnInv, wireVars
<1>2. CASE (ReinjectStealth \/ InjectStealth \/ ForwardCommand)
           /\ UNCHANGED <<downstream, delivered>>
  <2>1. PICK c \in Commands \cup EigerCommands :
          upstream' = Append(upstream, c)
            /\ (c.from = "eiger" => c.id >= EigerIdStart)
    BY <1>2, UpstreamSteps
  <2>2. \A i \in 1..Len(upstream') :
          upstream'[i].from = "eiger" => upstream'[i].id >= EigerIdStart
    BY <2>1, Appended DEF ProxyTypeOK, OwnInv
  <2> QED
    BY <1>2, <2>2 DEF OwnInv
<1>3. CASE (HideAnswer \/ ForwardMessage) /\ UNCHANGED upstream
  <2>1. downstream # <<>>
    BY <1>3 DEF HideAnswer, ForwardMessage, Proxying, TakenInv
  <2>2. /\ downstream \in Seq(Messages) /\ delivered \in Seq(Messages)
        /\ Len(Tail(downstream)) = Len(downstream) - 1
        /\ \A i \in 1..Len(Tail(downstream)) :
             Tail(downstream)[i] = downstream[i + 1]
        /\ Head(downstream) = downstream[1] /\ Head(downstream) \in Messages
    BY <2>1, Rest DEF ProxyTypeOK
  <2>3. \A i \in 1..Len(downstream') :
          downstream'[i].to = "eiger" => IsEigerResponse(downstream'[i])
    <3>1. downstream' = downstream \/ downstream' = Tail(downstream)
      BY <1>3 DEF HideAnswer, ForwardMessage
    <3>2. ASSUME downstream' = Tail(downstream), NEW i \in 1..Len(downstream')
          PROVE  i + 1 \in 1..Len(downstream)
                 /\ downstream'[i] = downstream[i + 1]
      BY <2>1, <2>2, <3>2
    <3> QED
      BY <3>1, <3>2 DEF OwnInv
  <2>4. \A i \in 1..Len(delivered') : delivered'[i].to # "eiger"
    <3>1. CASE UNCHANGED delivered
      BY <3>1 DEF OwnInv
    <3>2. CASE ForwardMessage /\ delivered' = Append(delivered, Head(downstream))
      <4>1. ~IsEigerResponse(Head(downstream))
        BY <3>2 DEF ForwardMessage, Proxying, TakenInv
      <4>2. Head(downstream).to # "eiger"
        BY <2>1, <2>2, <4>1 DEF OwnInv
      <4> QED
        BY <2>2, <3>2, <4>2, Appended DEF OwnInv
    <3> QED
      BY <1>3, <3>1, <3>2 DEF HideAnswer, ForwardMessage
  <2> QED
    BY <1>3, <2>3, <2>4 DEF OwnInv
<1>4. CASE (Execute \/ \E s \in Sessions : Attach(s))
           /\ UNCHANGED <<upstream, delivered>>
  <2>1. downstream' = downstream
        \/ \E m \in Messages : /\ downstream' = Append(downstream, m)
                               /\ m.to = "eiger" => IsEigerResponse(m)
    <3>1. CASE Execute
      <4>1. Answer(upstream[executed + 1]).to = "eiger" =>
              IsEigerResponse(Answer(upstream[executed + 1]))
        BY <3>1, ChromeAdds DEF OwnInv, Answer, IsEigerResponse
      <4> QED
        BY <3>1, <4>1, ChromeAdds DEF Execute
    <3>2. CASE \E s \in Sessions : Attach(s)
      BY <3>2, ChromeAdds DEF Attach, AttachedToTarget
    <3> QED
      BY <1>4, <3>1, <3>2
  <2>2. downstream \in Seq(Messages)
    BY DEF ProxyTypeOK
  <2>3. \A i \in 1..Len(downstream') :
          downstream'[i].to = "eiger" => IsEigerResponse(downstream'[i])
    BY <2>1, <2>2, Appended DEF OwnInv
  <2> QED
    BY <1>4, <2>3 DEF OwnInv
<1> QED
  BY <1>1, <1>2, <1>3, <1>4, WireSteps DEF cdpVars, wireVars

(* A message on its way stays there until it is delivered, unless its id   *)
(* is one of Eiger's.                                                      *)
LEMMA MessageKept ==
  ASSUME ControlInv, [ProxyNext]_cdpVars, NEW m, m.id < EigerIdStart,
         m.id \in Nat,
         \/ \E k \in 1..Len(downstream) : downstream[k] = m
         \/ \E k \in 1..Len(delivered) : delivered[k] = m
  PROVE  \/ \E k \in 1..Len(downstream') : downstream'[k] = m
         \/ \E k \in 1..Len(delivered') : delivered'[k] = m
<1> USE DEF ControlInv
<1>0. downstream \in Seq(Messages) /\ delivered \in Seq(Messages)
  BY DEF ProxyTypeOK
<1>1. CASE UNCHANGED <<downstream, delivered>>
  BY <1>1
<1>2. CASE (HideAnswer \/ ForwardMessage) /\ UNCHANGED upstream
  <2>1. downstream # <<>>
    BY <1>2 DEF HideAnswer, ForwardMessage, Proxying, TakenInv
  <2>2. /\ Tail(downstream) \in Seq(Messages)
        /\ Len(Tail(downstream)) = Len(downstream) - 1
        /\ \A i \in 1..Len(Tail(downstream)) :
             Tail(downstream)[i] = downstream[i + 1]
        /\ Head(downstream) = downstream[1] /\ Head(downstream) \in Messages
    BY <1>0, <2>1, Rest
  <2>3. ASSUME NEW k \in 2..Len(downstream), downstream[k] = m
        PROVE  \E i \in 1..Len(Tail(downstream)) : Tail(downstream)[i] = m
    <3>1. k - 1 \in 1..Len(Tail(downstream)) /\ (k - 1) + 1 = k
      BY <2>2, <2>3
    <3> QED
      BY <2>2, <2>3, <3>1
  <2>4. CASE HideAnswer
    <3>1. downstream[1] # m /\ downstream' = Tail(downstream)
          /\ UNCHANGED delivered
      BY <2>2, <2>4, ProxyAssumption DEF HideAnswer, IsEigerResponse
    <3>2. \A k \in 1..Len(downstream) : k = 1 \/ k \in 2..Len(downstream)
      BY <1>0
    <3> QED
      BY <2>3, <3>1, <3>2
  <2>5. CASE ForwardMessage
    <3>1. CASE UNCHANGED <<downstream, delivered>>
      BY <3>1
    <3>2. CASE /\ delivered' = Append(delivered, Head(downstream))
               /\ downstream' = Tail(downstream)
      <4>1. /\ Len(delivered') = Len(delivered) + 1
            /\ \A k \in 1..Len(delivered) : delivered'[k] = delivered[k]
            /\ delivered'[Len(delivered) + 1] = downstream[1]
        BY <1>0, <2>2, <3>2, Appended
      <4>2. CASE \E k \in 1..Len(delivered) : delivered[k] = m
        BY <1>0, <4>1, <4>2
      <4>3. CASE downstream[1] = m
        <5>1. Len(delivered) + 1 \in 1..Len(delivered')
          BY <1>0, <4>1
        <5> QED
          BY <4>1, <4>3, <5>1
      <4>4. \A k \in 1..Len(downstream) : k = 1 \/ k \in 2..Len(downstream)
        BY <1>0
      <4> QED
        BY <2>3, <3>2, <4>2, <4>3, <4>4
    <3> QED
      BY <2>5, <3>1, <3>2 DEF ForwardMessage
  <2> QED
    BY <1>2, <2>4, <2>5
<1>3. CASE (Execute \/ \E s \in Sessions : Attach(s))
           /\ UNCHANGED <<upstream, delivered>>
  <2>1. downstream' = downstream
        \/ \E e \in Messages : downstream' = Append(downstream, e)
    BY <1>3, ChromeAdds DEF Execute, Attach
  <2>2. Len(downstream') >= Len(downstream)
        /\ \A k \in 1..Len(downstream) : downstream'[k] = downstream[k]
        /\ Len(downstream') \in Nat
    BY <1>0, <2>1, Appended
  <2>3. \A k \in 1..Len(downstream) : k \in 1..Len(downstream')
    BY <1>0, <2>2
  <2> QED
    BY <1>3, <2>2, <2>3
<1> QED
  BY <1>1, <1>2, <1>3, WireSteps DEF cdpVars, wireVars

(* What AnswersKept says of one command that Chrome has executed.          *)
AnswerOf(c) ==
  c.from = "client" /\ c.method # "close" /\ c.id < EigerIdStart =>
    \/ \E k \in 1..Len(downstream) : downstream[k] = Answer(c)
    \/ \E k \in 1..Len(delivered) : delivered[k] = Answer(c)

(* Chrome's answer is on its way when the command has been executed, and   *)
(* is kept.                                                                *)
LEMMA AnswersStep ==
  ASSUME ControlInv, \A i \in 1..executed : AnswerOf(upstream[i]),
         [ProxyNext]_cdpVars
  PROVE  \A i \in 1..executed' : AnswerOf(upstream[i])' 
<1> USE DEF ControlInv
<1>1. /\ upstream \in Seq(Commands \cup EigerCommands)
      /\ downstream \in Seq(Messages) /\ executed \in 0..Len(upstream)
  BY DEF ProxyTypeOK
<1>2. ASSUME NEW i \in 1..executed
      PROVE  upstream'[i] = upstream[i] /\ AnswerOf(upstream[i])'
  <2>1. i \in 1..Len(upstream) /\ upstream[i] \in Commands \cup EigerCommands
    BY <1>1
  <2>2. upstream'[i] = upstream[i]
    <3>1. upstream' = upstream
          \/ \E c \in Commands \cup EigerCommands : upstream' = Append(upstream, c)
      BY WireSteps, UpstreamSteps DEF cdpVars, wireVars
    <3> QED
      BY <1>1, <2>1, <3>1, Appended
  <2>3. upstream[i].id \in Nat
    BY <2>1, ProxyAssumption DEF EigerCommands
  <2>4. Answer(upstream[i]).id = upstream[i].id
    BY DEF Answer
  <2>5. AnswerOf(upstream[i])
    OBVIOUS
  <2>6. Answer(upstream[i])' = Answer(upstream[i])
    BY <2>2 DEF Answer
  <2>7. CASE \/ \E k \in 1..Len(downstream) : downstream[k] = Answer(upstream[i])
             \/ \E k \in 1..Len(delivered) : delivered[k] = Answer(upstream[i])
    <3>1. CASE upstream[i].id < EigerIdStart
      BY <2>2, <2>3, <2>4, <2>6, <2>7, <3>1, MessageKept DEF AnswerOf
    <3>2. CASE ~(upstream[i].id < EigerIdStart)
      BY <2>2, <3>2 DEF AnswerOf
    <3> QED
      BY <3>1, <3>2
  <2>8. CASE ~(upstream[i].from = "client" /\ upstream[i].method # "close"
                 /\ upstream[i].id < EigerIdStart)
    BY <2>2, <2>8 DEF AnswerOf
  <2> QED
    BY <2>2, <2>5, <2>7, <2>8 DEF AnswerOf
<1>3. CASE executed' = executed
  BY <1>2, <1>3
<1>4. CASE Execute
  <2>1. executed' = executed + 1 /\ UNCHANGED <<upstream, delivered>>
    BY <1>4 DEF Execute
  <2>2. ASSUME NEW n \in Nat, n = executed + 1
        PROVE  AnswerOf(upstream[n])'
    <3>1. CASE upstream[n].method = "close"
      BY <2>1, <3>1 DEF AnswerOf
    <3>2. CASE upstream[n].method # "close"
      <4>1. downstream' = Append(downstream, Answer(upstream[n]))
        BY <1>4, <2>2, <3>2 DEF Execute
      <4>2. Answer(upstream[n]) \in Messages
        BY <1>4, <2>2, ChromeAdds
      <4>3. Len(downstream') = Len(downstream) + 1
            /\ downstream'[Len(downstream) + 1] = Answer(upstream[n])
        BY <1>1, <4>1, <4>2, Appended
      <4>4. Len(downstream) + 1 \in 1..Len(downstream')
        BY <1>1, <4>3
      <4>5. \E k \in 1..Len(downstream') : downstream'[k] = Answer(upstream[n])
        BY <4>3, <4>4
      <4> QED
        BY <2>1, <4>5 DEF AnswerOf, Answer
    <3> QED
      BY <3>1, <3>2
  <2>3. \A i \in 1..executed' : i \in 1..executed \/ (i \in Nat /\ i = executed + 1)
    BY <1>1, <2>1
  <2> QED
    BY <1>2, <2>2, <2>3
<1> QED
  <2>1. Execute \/ executed' = executed
    BY DEF ProxyNext, ClientHalf, BrowserHalf, Client, Connect, TakeCommand,
       ReinjectStealth, EndPause, ForwardCommand, SendFails, BeginClose,
       CloseUpstream, HideAnswer, TakeMessage, InjectStealth, InjectionReturns,
       ForwardMessage, UpstreamEnds, ClientReads, ClientLeaves, ClientSends,
       Disconnect, Attach, SendStealthCommand, cdpVars, chromeVars
  <2> QED
    BY <1>3, <1>4, <2>1

----------------------------------------------------------------------------
(* Batches *)

(* The session that a half injects the scripts into.                       *)
WorkSession(h) ==
  IF h = "client" THEN sent[taken].session ELSE Head(downstream).session

(* A batch that is under way is the last thing that Chrome was sent, and   *)
(* the half that sends it holds the lock.                                  *)
UnderWay(h) ==
  /\ pc[h] \in {"inject", "done"} /\ Holds(h)
  /\ Len(upstream) > 0
  /\ upstream[Len(upstream)].method = Batch[batch[h]]
  /\ upstream[Len(upstream)].session = WorkSession(h)

Follows(i) ==
  \A k \in 1..2 :
    upstream[i].method = Batch[k] =>
      /\ upstream[i + 1].method = Batch[k + 1]
      /\ upstream[i + 1].session = upstream[i].session

BatchInv ==
  /\ \A i \in 1..Len(upstream) : i < Len(upstream) => Follows(i)
  /\ \A h \in Halves : batch[h] > 0 => UnderWay(h)
  /\ Len(upstream) > 0 /\ upstream[Len(upstream)].method \in {Batch[1], Batch[2]} =>
       \E h \in Halves : batch[h] > 0

(* A half that holds the lock is the only one with a batch under way.      *)
LEMMA OnlyHolderSends ==
  ASSUME ControlInv, BatchInv, NEW h \in Halves, Holds(h)
  PROVE  \A g \in Halves : g # h => batch[g] = 0
<1>1. \A g \in Halves : batch[g] \in 0..2
  BY DEF ControlInv, ProxyTypeOK
<1>2. \A g \in Halves : batch[g] > 0 => Holds(g)
  BY DEF BatchInv, UnderWay
<1>3. \A g \in Halves : Holds(g) => g = h
  BY DEF Holds
<1> QED
  BY <1>1, <1>2, <1>3

(* The next command of a batch follows the one before it.                  *)
LEMMA BatchSend ==
  ASSUME ControlInv, BatchInv, NEW h \in Halves,
         WorkSession(h) \in Sessions \cup {NoSession},
         SendStealthCommand(h, WorkSession(h))
  PROVE  BatchInv'
<1> DEFINE n == Len(upstream)
           c == [from |-> "eiger", id |-> nextId, session |-> WorkSession(h),
                 method |-> Batch[batch[h] + 1]]
<1> USE DEF ControlInv
<1>1. /\ upstream \in Seq(Commands \cup EigerCommands) /\ n \in Nat
      /\ batch[h] \in 0..2 /\ nextId \in Nat /\ pc[h] = "inject" /\ Holds(h)
      /\ lock' = lock
  BY DEF ProxyTypeOK, SendStealthCommand, Proxying, LockInBatch
<1>2. upstream' = Append(upstream, c) /\ c.method = Batch[batch[h] + 1]
      /\ c.session = WorkSession(h)
  BY DEF SendStealthCommand
<1>3. c \in Commands \cup EigerCommands
  BY <1>1, BatchIs DEF EigerCommands
<1>4. /\ Len(upstream') = n + 1 /\ upstream'[n + 1] = c
      /\ \A i \in 1..n : upstream'[i] = upstream[i]
  BY <1>1, <1>2, <1>3, Appended
<1>5. \A g \in Halves : g # h => batch[g] = 0
  BY <1>1, OnlyHolderSends
<1>6. \A g \in Halves : WorkSession(g)' = WorkSession(g)
  BY DEF SendStealthCommand, clientVars, WorkSession
<1>7. \/ batch[h] = 2 /\ batch' = [batch EXCEPT ![h] = 0]
      \/ batch[h] < 2 /\ batch' = [batch EXCEPT ![h] = @ + 1] /\ UNCHANGED pc
  BY <1>1, BatchIs DEF SendStealthCommand
<1>8. batch[h] > 0 => upstream[n].method = Batch[batch[h]]
                        /\ upstream[n].session = WorkSession(h) /\ n > 0
  BY DEF BatchInv, UnderWay
<1>9. batch[h] = 0 /\ n > 0 => upstream[n].method \notin {Batch[1], Batch[2]}
  BY <1>5 DEF BatchInv
<1>10. ASSUME NEW i \in 1..Len(upstream'), i < Len(upstream')
       PROVE  Follows(i)'
  <2>1. CASE i < n
    <3>1. i \in 1..n /\ i + 1 \in 1..n /\ Follows(i)
      BY <1>1, <1>4, <1>10, <2>1 DEF BatchInv
    <3> QED
      BY <1>4, <3>1 DEF Follows
  <2>2. CASE i = n
    <3>1. upstream'[i] = upstream[n] /\ upstream'[i + 1] = c /\ n > 0
      BY <1>1, <1>4, <1>10, <2>2
    <3>2. ASSUME NEW k \in 1..2, upstream[n].method = Batch[k]
          PROVE  c.method = Batch[k + 1] /\ c.session = upstream[n].session
      <4>1. batch[h] # 0
        BY <1>9, <3>1, <3>2, BatchIs
      <4>2. batch[h] = k
        BY <1>1, <1>8, <3>2, <4>1, BatchIs
      <4> QED
        BY <1>1, <1>2, <1>8, <4>1, <4>2
    <3> QED
      BY <3>1, <3>2 DEF Follows
  <2> QED
    BY <1>1, <1>4, <1>10, <2>1, <2>2
<1>11. CASE batch[h] = 2 /\ batch' = [batch EXCEPT ![h] = 0]
  <2>1. \A g \in Halves : batch'[g] = 0
    BY <1>5, <1>11 DEF ProxyTypeOK
  <2>2. c.method = "evaluate"
    BY <1>2, <1>11, BatchIs
  <2> QED
    BY <1>4, <1>10, <2>1, <2>2, BatchIs DEF BatchInv
<1>12. CASE batch[h] < 2 /\ batch' = [batch EXCEPT ![h] = @ + 1] /\ UNCHANGED pc
  <2>1. batch'[h] = batch[h] + 1 /\ batch'[h] > 0
        /\ \A g \in Halves : g # h => batch'[g] = 0
    BY <1>1, <1>5, <1>12 DEF ProxyTypeOK
  <2>2. UnderWay(h)'
    <3>1. Holds(h)' /\ pc'[h] = "inject" /\ Len(upstream') > 0
      BY <1>1, <1>4, <1>12 DEF Holds
    <3>2. WorkSession(h)' = WorkSession(h)
      BY <1>6
    <3> QED
      BY <1>2, <1>4, <2>1, <3>1, <3>2 DEF UnderWay
  <2> QED
    BY <1>10, <2>1, <2>2 DEF BatchInv
<1> QED
  BY <1>7, <1>11, <1>12

(* The client's command follows whole batches.                             *)
LEMMA BatchForward ==
  ASSUME ControlInv, BatchInv, ForwardCommand
  PROVE  BatchInv'
<1> DEFINE n == Len(upstream)
           c == sent[taken]
<1> USE DEF ControlInv
<1>1. /\ upstream \in Seq(Commands \cup EigerCommands) /\ n \in Nat
      /\ c \in Commands /\ Holds("client") /\ pc["client"] = "forward"
      /\ upstream' = Append(upstream, c) /\ UNCHANGED batch
  BY DEF ForwardCommand, Proxying, ProxyTypeOK, TakenInv
<1>2. c.method \notin {"enable", "addScript", "evaluate"}
  BY <1>1, ProxyAssumption
<1>3. \A h \in Halves : batch[h] = 0
  <2>1. batch["client"] = 0
    BY <1>1 DEF BatchInv, UnderWay, ProxyTypeOK, Halves
  <2> QED
    BY <1>1, <2>1, OnlyHolderSends DEF Halves
<1>4. /\ Len(upstream') = n + 1 /\ upstream'[n + 1] = c
      /\ \A i \in 1..n : upstream'[i] = upstream[i]
  BY <1>1, Appended
<1>5. ASSUME NEW i \in 1..Len(upstream'), i < Len(upstream')
      PROVE  Follows(i)'
  <2>1. CASE i < n
    <3>1. i \in 1..n /\ i + 1 \in 1..n /\ Follows(i)
      BY <1>1, <1>4, <1>5, <2>1 DEF BatchInv
    <3> QED
      BY <1>4, <3>1 DEF Follows
  <2>2. CASE i = n
    <3>1. upstream'[i] = upstream[n] /\ n > 0
      BY <1>1, <1>4, <1>5, <2>2
    <3>2. upstream[n].method \notin {Batch[1], Batch[2]}
      BY <1>3, <3>1 DEF BatchInv
    <3> QED
      BY <3>1, <3>2, BatchIs DEF Follows
  <2> QED
    BY <1>1, <1>4, <1>5, <2>1, <2>2
<1> QED
  BY <1>1, <1>2, <1>3, <1>4, <1>5, BatchIs DEF BatchInv

(* A batch is under way as long as its half keeps the lock.                *)
LEMMA BatchKept ==
  ASSUME BatchInv, UNCHANGED <<upstream, batch>>,
         \A h \in Halves : batch[h] > 0 =>
           /\ pc'[h] \in {"inject", "done"}
           /\ Holds(h)' /\ WorkSession(h)' = WorkSession(h)
  PROVE  BatchInv'
<1>1. \A i \in 1..Len(upstream) : Follows(i)' <=> Follows(i)
  BY DEF Follows
<1>2. \A h \in Halves : batch'[h] > 0 => UnderWay(h)'
  BY DEF BatchInv, UnderWay
<1> QED
  BY <1>1, <1>2 DEF BatchInv

(* When a half has returned the proxy has.                                 *)
LEMMA NothingAfterEnd == ControlInv /\ ProxyNext => ~Ended
<1> SUFFICES ASSUME ControlInv, ProxyNext PROVE ~Ended
  OBVIOUS
<1>1. CASE Connect
  BY <1>1 DEF Connect, Ended, ControlInv, ConnectInv, Halves
<1>2. CASE ClientHalf \/ BrowserHalf
  BY <1>2
  DEF ClientHalf, BrowserHalf, TakeCommand, ReinjectStealth, EndPause,
      ForwardCommand, SendFails, BeginClose, CloseUpstream, HideAnswer,
      TakeMessage, InjectStealth, InjectionReturns, ForwardMessage,
      UpstreamEnds, SendStealthCommand, Proxying
<1>3. CASE Client \/ Execute \/ Disconnect \/ \E s \in Sessions : Attach(s)
  BY <1>3
  DEF Client, ClientReads, ClientLeaves, ClientSends, Execute, Disconnect,
      Attach, Serves
<1> QED
  BY <1>1, <1>2, <1>3 DEF ProxyNext

(* Batches stay whole.                                                     *)
LEMMA BatchStep == ControlInv /\ BatchInv /\ [ProxyNext]_cdpVars => BatchInv'
<1> SUFFICES ASSUME ControlInv, BatchInv, [ProxyNext]_cdpVars PROVE BatchInv'
  OBVIOUS
<1> USE DEF ControlInv
<1>1. \A h \in Halves : batch[h] > 0 => pc[h] \in {"inject", "done"} /\ Holds(h)
  BY DEF BatchInv, UnderWay
<1>2. /\ "client" \in Halves /\ "browser" \in Halves
      /\ \A h \in Halves : h = "client" \/ h = "browser"
      /\ lock \in Seq(Halves) /\ batch \in [Halves -> 0..2]
      /\ pc \in [Halves -> HalfPCs]
  BY DEF Halves, ProxyTypeOK
<1>3. CASE ReinjectStealth
  <2>1. pc["client"] = "inject" /\ WorkSession("client") = sent[taken].session
    BY <1>3 DEF ReinjectStealth, SendStealthCommand, Proxying, WorkSession
  <2> QED
    BY <1>2, <1>3, <2>1, SessionsTyped, BatchSend DEF ReinjectStealth
<1>4. CASE InjectStealth
  <2>1. pc["browser"] = "inject"
        /\ WorkSession("browser") = Head(downstream).session
    BY <1>4 DEF InjectStealth, SendStealthCommand, Proxying, WorkSession
  <2> QED
    BY <1>2, <1>4, <2>1, SessionsTyped, BatchSend DEF InjectStealth
<1>5. CASE ForwardCommand
  BY <1>5, BatchForward
<1>6. \A h \in Halves : Append(lock, h) # <<>>
                         /\ (Holds("client") => Head(Append(lock, h)) = "client")
                         /\ (Holds("browser") => Head(Append(lock, h)) = "browser")
  BY <1>2, HeadKept, Appended DEF Holds
<1>7. CASE TakeCommand \/ BeginClose
  <2>1. /\ pc["client"] = "next" /\ pc'["browser"] = pc["browser"]
        /\ lock' = Append(lock, "client")
        /\ UNCHANGED <<upstream, batch, downstream>>
    BY <1>2, <1>7 DEF TakeCommand, BeginClose, Proxying, Goto, wireVars
  <2> QED
    BY <1>1, <1>2, <1>6, <2>1, BatchKept DEF WorkSession, Holds
<1>8. CASE EndPause \/ InjectionReturns
  <2>1. \E h \in Halves : Holds(h) /\ pc[h] = "pause"
    BY <1>2, <1>8 DEF EndPause, InjectionReturns, Proxying, LockInv
  <2>2. \A h \in Halves : ~(batch[h] > 0)
    BY <1>1, <2>1 DEF Holds
  <2>3. UNCHANGED <<upstream, batch>>
    BY <1>8 DEF EndPause, InjectionReturns, wireVars
  <2> QED
    BY <2>2, <2>3, BatchKept
<1>9. CASE SendFails("client") \/ SendFails("browser") \/ CloseUpstream
           \/ UpstreamEnds
  <2>1. /\ UNCHANGED <<upstream, batch, lock, downstream, sent, taken>>
        /\ \A h \in Halves : pc'[h] = pc[h] \/ pc'[h] = "done"
    BY <1>2, <1>9
    DEF SendFails, CloseUpstream, UpstreamEnds, Goto, wireVars, clientVars
  <2> QED
    BY <1>1, <2>1, BatchKept DEF WorkSession, Holds
<1>10. CASE HideAnswer \/ TakeMessage \/ ForwardMessage
  <2>1. /\ pc["browser"] \in {"next", "forward"} /\ pc'["client"] = pc["client"]
        /\ lock' = lock \/ lock' = Append(lock, "browser")
        /\ UNCHANGED <<upstream, batch, sent, taken>>
    BY <1>2, <1>10
    DEF HideAnswer, TakeMessage, ForwardMessage, Proxying, Goto, wireVars,
        clientVars, proxyVars
  <2> QED
    BY <1>1, <1>2, <1>6, <2>1, BatchKept DEF WorkSession, Holds
<1>11. CASE Connect
  <2>1. UNCHANGED <<upstream, batch>> /\ \A h \in Halves : pc[h] = "connect"
    BY <1>2, <1>11 DEF Connect, ConnectInv, wireVars
  <2> QED
    BY <1>1, <2>1, BatchKept
<1>12. CASE Client
  <2>1. UNCHANGED <<pc, lock, upstream, batch, downstream, taken>>
    BY <1>12
    DEF Client, ClientReads, ClientLeaves, ClientSends, proxyVars, wireVars
  <2>2. pc["client"] = "inject" => sent'[taken] = sent[taken]
    <3>1. sent' = sent \/ \E c \in Commands : sent' = Append(sent, c)
      BY <1>12 DEF Client, ClientReads, ClientLeaves, ClientSends
    <3>2. sent \in Seq(Commands)
          /\ (pc["client"] = "inject" => taken \in 1..Len(sent))
      BY DEF TakenInv, ProxyTypeOK
    <3>3. \A c \in Commands, i \in 1..Len(sent) : Append(sent, c)[i] = sent[i]
      BY <3>2, Appended
    <3> QED
      BY <3>1, <3>2, <3>3
  <2>3. \A h \in Halves : pc[h] # "done"
    BY <1>12, NothingAfterEnd DEF ProxyNext, Ended
  <2> QED
    BY <1>1, <2>1, <2>2, <2>3, BatchKept DEF WorkSession, Holds
<1>13. CASE Execute \/ Disconnect \/ \E s \in Sessions : Attach(s)
  <2>1. UNCHANGED <<pc, lock, upstream, batch, sent, taken>>
    BY <1>13 DEF Execute, Disconnect, Attach, clientVars, proxyVars, wireVars
  <2>2. pc["browser"] = "inject" => Head(downstream') = Head(downstream)
    <3>1. downstream' = downstream
          \/ \E m \in Messages : downstream' = Append(downstream, m)
      BY <1>13, ChromeAdds DEF Execute, Disconnect, Attach, wireVars
    <3> QED
      BY <3>1, HeadKept DEF ProxyTypeOK, TakenInv
  <2>3. \A h \in Halves : pc[h] # "done"
    BY <1>13, NothingAfterEnd DEF ProxyNext, Ended
  <2>4. \A h \in Halves : batch[h] > 0 => pc'[h] = "inject" /\ Holds(h)'
    BY <1>1, <2>1, <2>3 DEF Holds
  <2>5. \A h \in Halves : batch[h] > 0 => WorkSession(h)' = WorkSession(h)
    BY <1>1, <1>2, <2>1, <2>2, <2>3 DEF WorkSession
  <2> QED
    BY <2>1, <2>4, <2>5, BatchKept
<1>14. CASE UNCHANGED cdpVars
  BY <1>1, <1>14, BatchKept
  DEF cdpVars, clientVars, proxyVars, wireVars, WorkSession, Holds
<1> QED
  BY <1>3, <1>4, <1>5, <1>7, <1>8, <1>9, <1>10, <1>11, <1>12, <1>13, <1>14
  DEF ProxyNext, ClientHalf, BrowserHalf

----------------------------------------------------------------------------
(* Navigations *)

Navigates(c) == Stealth /\ c.method = "navigate" /\ c.session # NoSession

(* The scripts are evaluated in s, and the client has sent nothing since.  *)
EvaluatedBefore(commands, s, n) ==
  \E j \in 1..n :
    /\ commands[j].method = "evaluate" /\ commands[j].session = s
    /\ \A k \in j..n : commands[k].from = "eiger"

(* From the end of its batch on, a navigation only waits to be forwarded.  *)
NavigationInv ==
  /\ \A i \in 1..Len(upstream) :
       upstream[i].from = "client" /\ Navigates(upstream[i]) =>
         EvaluatedBefore(upstream, upstream[i].session, i - 1)
  /\ pc["client"] \in {"pause", "forward"} /\ Navigates(sent[taken]) =>
       EvaluatedBefore(upstream, sent[taken].session, Len(upstream))

(* What has been sent before stays as it is.                               *)
LEMMA EvaluatedKept ==
  ASSUME NEW S, upstream \in Seq(S), NEW c \in S, NEW s,
         upstream' = Append(upstream, c), NEW n \in 0..Len(upstream),
         EvaluatedBefore(upstream, s, n)
  PROVE  /\ EvaluatedBefore(upstream', s, n)
         /\ n = Len(upstream) /\ c.from = "eiger" => EvaluatedBefore(upstream', s, n + 1)
<1>1. /\ Len(upstream') = Len(upstream) + 1
      /\ \A i \in 1..Len(upstream) : upstream'[i] = upstream[i]
      /\ upstream'[Len(upstream) + 1] = c
  BY Appended
<1>2. PICK j \in 1..n : /\ upstream[j].method = "evaluate"
                        /\ upstream[j].session = s
                        /\ \A k \in j..n : upstream[k].from = "eiger"
  BY DEF EvaluatedBefore
<1>3. upstream'[j] = upstream[j] /\ \A k \in j..n : upstream'[k] = upstream[k]
  BY <1>1
<1>4. EvaluatedBefore(upstream', s, n)
  BY <1>2, <1>3 DEF EvaluatedBefore
<1>5. ASSUME n = Len(upstream), c.from = "eiger"
      PROVE  EvaluatedBefore(upstream', s, n + 1)
  <2>1. \A k \in j..(n + 1) : k \in j..n \/ k = n + 1
    OBVIOUS
  <2>2. \A k \in j..(n + 1) : upstream'[k].from = "eiger"
    BY <1>1, <1>2, <1>3, <1>5, <2>1
  <2>3. j \in 1..(n + 1)
    OBVIOUS
  <2> QED
    BY <1>2, <1>3, <2>2, <2>3 DEF EvaluatedBefore
<1> QED
  BY <1>4, <1>5

(* Eiger's next command leaves a navigation waiting, or makes it wait.     *)
LEMMA NavigationSend ==
  ASSUME ControlInv, NavigationInv, NEW h \in Halves,
         WorkSession(h) \in Sessions \cup {NoSession},
         SendStealthCommand(h, WorkSession(h))
  PROVE  NavigationInv'
<1> DEFINE n == Len(upstream)
           c == [from |-> "eiger", id |-> nextId, session |-> WorkSession(h),
                 method |-> Batch[batch[h] + 1]]
<1> USE DEF ControlInv
<1>1. /\ upstream \in Seq(Commands \cup EigerCommands) /\ n \in Nat
      /\ batch[h] \in 0..2 /\ nextId \in Nat /\ pc \in [Halves -> HalfPCs]
      /\ UNCHANGED <<sent, taken>> /\ upstream' = Append(upstream, c)
  BY DEF ProxyTypeOK, SendStealthCommand, clientVars
<1>2. c \in Commands \cup EigerCommands
  BY <1>1, BatchIs DEF EigerCommands
<1>3. /\ Len(upstream') = n + 1 /\ upstream'[n + 1] = c
      /\ \A i \in 1..n : upstream'[i] = upstream[i]
  BY <1>1, <1>2, Appended
<1>4. ASSUME NEW i \in 1..Len(upstream'), upstream'[i].from = "client",
             Navigates(upstream'[i])
      PROVE  EvaluatedBefore(upstream', upstream'[i].session, i - 1)
  <2>1. i \in 1..n /\ upstream'[i] = upstream[i] /\ i - 1 \in 0..n
    BY <1>1, <1>3, <1>4
  <2>2. EvaluatedBefore(upstream, upstream[i].session, i - 1)
    BY <1>4, <2>1 DEF NavigationInv
  <2>3. ASSUME NEW s, s = upstream[i].session
        PROVE  EvaluatedBefore(upstream', s, i - 1)
    BY <1>1, <1>2, <2>1, <2>2, <2>3, EvaluatedKept
  <2> QED
    BY <2>1, <2>3
<1>5. ASSUME pc'["client"] \in {"pause", "forward"}, Navigates(sent[taken]),
             NEW s, s = sent[taken].session
      PROVE  EvaluatedBefore(upstream', s, n + 1)
  <2>1. CASE pc["client"] \in {"pause", "forward"}
    <3>1. EvaluatedBefore(upstream, s, n)
      BY <1>5, <2>1 DEF NavigationInv
    <3> QED
      BY <1>1, <1>2, <3>1, EvaluatedKept
  <2>2. CASE pc["client"] \notin {"pause", "forward"}
    <3>1. h = "client" /\ batch[h] = 2
      BY <1>1, <1>5, <2>2, BatchIs DEF SendStealthCommand, Goto, Halves
    <3>2. c.method = "evaluate" /\ c.session = s /\ c.from = "eiger"
      BY <1>5, <3>1, BatchIs DEF WorkSession
    <3>3. \A k \in (n + 1)..(n + 1) : k = n + 1
      BY <1>1
    <3>4. n + 1 \in 1..(n + 1)
      BY <1>1
    <3> QED
      BY <1>3, <3>2, <3>3, <3>4 DEF EvaluatedBefore
  <2> QED
    BY <2>1, <2>2
<1>6. pc'["client"] \in {"pause", "forward"} /\ Navigates(sent[taken]) =>
        EvaluatedBefore(upstream', sent[taken].session, Len(upstream'))
  BY <1>1, <1>3, <1>5
<1> QED
  BY <1>1, <1>4, <1>6 DEF NavigationInv, Navigates

(* A navigation is forwarded after its batch, with nothing in between.     *)
LEMMA NavigationForward ==
  ASSUME ControlInv, NavigationInv, ForwardCommand
  PROVE  NavigationInv'
<1> DEFINE n == Len(upstream)
           c == sent[taken]
<1> USE DEF ControlInv
<1>1. /\ upstream \in Seq(Commands \cup EigerCommands) /\ n \in Nat
      /\ c \in Commands \cup EigerCommands /\ pc["client"] = "forward"
      /\ pc \in [Halves -> HalfPCs] /\ pc'["client"] = "next"
      /\ upstream' = Append(upstream, c)
  BY DEF ForwardCommand, Proxying, Goto, ProxyTypeOK, TakenInv, Halves
<1>2. /\ Len(upstream') = n + 1 /\ upstream'[n + 1] = c
      /\ \A i \in 1..n : upstream'[i] = upstream[i]
  BY <1>1, Appended
<1>3. ASSUME NEW i \in 1..Len(upstream'), upstream'[i].from = "client",
             Navigates(upstream'[i]), NEW s, s = upstream'[i].session
      PROVE  EvaluatedBefore(upstream', s, i - 1)
  <2>1. i - 1 \in 0..n /\ (i \in 1..n \/ i = n + 1)
    BY <1>1, <1>2
  <2>2. EvaluatedBefore(upstream, s, i - 1)
    <3>1. CASE i \in 1..n
      BY <1>2, <1>3, <3>1 DEF NavigationInv
    <3>2. CASE i = n + 1
      <4>1. upstream'[i] = c /\ i - 1 = n
        BY <1>1, <1>2, <3>2
      <4> QED
        BY <1>1, <1>3, <4>1 DEF NavigationInv
    <3> QED
      BY <2>1, <3>1, <3>2
  <2> QED
    BY <1>1, <2>1, <2>2, EvaluatedKept
<1> QED
  BY <1>1, <1>3 DEF NavigationInv, Navigates

(* No other step sends anything to Chrome, and a navigation that has been  *)
(* taken goes through its batch.                                           *)
LEMMA NavigationStep ==
  ControlInv /\ NavigationInv /\ [ProxyNext]_cdpVars => NavigationInv'
<1> SUFFICES ASSUME ControlInv, NavigationInv, [ProxyNext]_cdpVars
             PROVE  NavigationInv'
  OBVIOUS
<1> USE DEF ControlInv
<1>1. "client" \in Halves /\ "browser" \in Halves /\ pc \in [Halves -> HalfPCs]
  BY DEF Halves, ProxyTypeOK
<1>2. CASE ReinjectStealth
  <2>1. pc["client"] = "inject" /\ WorkSession("client") = sent[taken].session
    BY <1>2 DEF ReinjectStealth, SendStealthCommand, Proxying, WorkSession
  <2> QED
    BY <1>1, <1>2, <2>1, SessionsTyped, NavigationSend DEF ReinjectStealth
<1>3. CASE InjectStealth
  <2>1. pc["browser"] = "inject"
        /\ WorkSession("browser") = Head(downstream).session
    BY <1>3 DEF InjectStealth, SendStealthCommand, Proxying, WorkSession
  <2> QED
    BY <1>1, <1>3, <2>1, SessionsTyped, NavigationSend DEF InjectStealth
<1>4. CASE ForwardCommand
  BY <1>4, NavigationForward
<1>5. ASSUME UNCHANGED upstream,
             pc'["client"] \in {"pause", "forward"} /\ Navigates(sent'[taken']) =>
               /\ pc["client"] \in {"pause", "forward"}
               /\ sent'[taken'] = sent[taken]
      PROVE  NavigationInv'
  BY <1>5 DEF NavigationInv, Navigates
<1>6. CASE TakeCommand
  <2>1. taken' = taken + 1 /\ UNCHANGED <<sent, upstream>>
        /\ pc'["client"] = IF Reinjects(sent[taken + 1]) THEN "inject"
                           ELSE "forward"
    BY <1>1, <1>6 DEF TakeCommand, Goto, wireVars, clientVars
  <2> QED
    BY <1>5, <2>1 DEF Navigates, Reinjects
<1>7. CASE EndPause \/ SendFails("client") \/ BeginClose \/ CloseUpstream
  <2>1. /\ UNCHANGED <<sent, taken, upstream>>
        /\ pc'["client"] \in {"close", "done"} \/ pc["client"] = "pause"
    BY <1>1, <1>7
    DEF EndPause, SendFails, BeginClose, CloseUpstream, Proxying, Goto,
        wireVars, clientVars
  <2> QED
    BY <1>5, <2>1
<1>8. CASE HideAnswer \/ TakeMessage \/ InjectionReturns \/ ForwardMessage
           \/ SendFails("browser") \/ UpstreamEnds
  <2>1. UNCHANGED <<sent, taken, upstream>> /\ pc'["client"] = pc["client"]
    BY <1>1, <1>8
    DEF HideAnswer, TakeMessage, InjectionReturns, ForwardMessage, SendFails,
        UpstreamEnds, Goto, wireVars, clientVars, proxyVars
  <2> QED
    BY <1>5, <2>1
<1>9. CASE Connect
  <2>1. UNCHANGED <<sent, taken, upstream>> /\ pc'["client"] \in {"next", "done"}
    BY <1>1, <1>9 DEF Connect, wireVars, clientVars
  <2> QED
    BY <1>5, <2>1
<1>10. CASE Client
  <2>1. UNCHANGED <<pc, taken, upstream>>
    BY <1>10
    DEF Client, ClientReads, ClientLeaves, ClientSends, proxyVars, wireVars
  <2>2. pc["client"] \in {"pause", "forward"} => sent'[taken] = sent[taken]
    <3>1. sent' = sent \/ \E c \in Commands : sent' = Append(sent, c)
      BY <1>10 DEF Client, ClientReads, ClientLeaves, ClientSends
    <3>2. sent \in Seq(Commands)
          /\ (pc["client"] \in {"pause", "forward"} => taken \in 1..Len(sent))
      BY DEF TakenInv, ProxyTypeOK
    <3>3. \A c \in Commands, i \in 1..Len(sent) : Append(sent, c)[i] = sent[i]
      BY <3>2, Appended
    <3> QED
      BY <3>1, <3>2, <3>3
  <2> QED
    BY <1>5, <2>1, <2>2
<1>11. CASE Execute \/ Disconnect \/ (\E s \in Sessions : Attach(s))
            \/ UNCHANGED cdpVars
  <2>1. UNCHANGED <<pc, sent, taken, upstream>>
    BY <1>11
    DEF Execute, Disconnect, Attach, cdpVars, clientVars, proxyVars, wireVars
  <2> QED
    BY <1>5, <2>1
<1> QED
  BY <1>2, <1>3, <1>4, <1>6, <1>7, <1>8, <1>9, <1>10, <1>11
  DEF ProxyNext, ClientHalf, BrowserHalf

----------------------------------------------------------------------------
(* Injection before the client's commands *)

(* The first n commands of a batch for s are among the first m commands.   *)
InjectedBefore(commands, s, n, m) ==
  \A k \in 1..n : \E j \in 1..m :
    /\ commands[j].from = "eiger" /\ commands[j].method = Batch[k]
    /\ commands[j].session = s

Injected(s, n) == InjectedBefore(upstream, s, n, Len(upstream))

(* The event that reports a page is delivered after the whole batch, and   *)
(* the client sends nothing to a session that was not reported.            *)
InjectionInv ==
  Stealth =>
    /\ \A i \in 1..Len(upstream) :
         upstream[i].from = "client" /\ upstream[i].session \in Pages =>
           InjectedBefore(upstream, upstream[i].session, 3, i - 1)
    /\ \A i \in 1..Len(delivered) :
         Injects(delivered[i]) => Injected(delivered[i].session, 3)
    /\ \A i \in 1..Len(sent) :
         sent[i].session \in Pages => Injected(sent[i].session, 3)
    /\ pc["browser"] = "inject" =>
         Injected(Head(downstream).session, batch["browser"])
    /\ pc["browser"] \in {"pause", "forward"} /\ Injects(Head(downstream)) =>
         Injected(Head(downstream).session, 3)

(* What has been injected stays so.                                        *)
LEMMA InjectedKept ==
  ASSUME NEW S, upstream \in Seq(S), NEW c \in S,
         upstream' = Append(upstream, c), NEW s, NEW n \in Nat,
         NEW m \in 0..Len(upstream), InjectedBefore(upstream, s, n, m)
  PROVE  /\ InjectedBefore(upstream', s, n, m)
         /\ InjectedBefore(upstream', s, n, Len(upstream'))
<1>1. /\ Len(upstream') = Len(upstream) + 1
      /\ \A i \in 1..Len(upstream) : upstream'[i] = upstream[i]
  BY Appended
<1>2. \A j \in 1..m : j \in 1..Len(upstream) /\ j \in 1..Len(upstream')
  BY <1>1
<1>3. \A j \in 1..m : upstream'[j] = upstream[j]
  BY <1>1, <1>2
<1>4. InjectedBefore(upstream', s, n, m)
  BY <1>3 DEF InjectedBefore
<1> QED
  BY <1>2, <1>4 DEF InjectedBefore

(* A command sent to Chrome keeps what is said of the rest.                *)
LEMMA InjectionSent ==
  ASSUME ControlInv, InjectionInv, Stealth,
         NEW c \in Commands \cup EigerCommands,
         upstream' = Append(upstream, c), UNCHANGED <<sent, delivered, downstream>>,
         c.from = "client" /\ c.session \in Pages => Injected(c.session, 3),
         pc'["browser"] = "inject" =>
           InjectedBefore(upstream', Head(downstream).session, batch'["browser"],
                          Len(upstream')),
         pc'["browser"] \in {"pause", "forward"} /\ Injects(Head(downstream)) =>
           InjectedBefore(upstream', Head(downstream).session, 3, Len(upstream'))
  PROVE  InjectionInv'
<1> DEFINE n == Len(upstream)
<1> USE DEF ControlInv
<1>1. upstream \in Seq(Commands \cup EigerCommands) /\ n \in Nat
  BY DEF ProxyTypeOK
<1>2. /\ Len(upstream') = n + 1 /\ upstream'[n + 1] = c
      /\ \A i \in 1..n : upstream'[i] = upstream[i]
  BY <1>1, Appended
<1>3. ASSUME NEW s, Injected(s, 3)
      PROVE  InjectedBefore(upstream', s, 3, Len(upstream'))
             /\ InjectedBefore(upstream', s, 3, n)
  <2>1. n \in 0..n /\ 3 \in Nat
    BY <1>1
  <2> QED
    BY <1>1, <1>3, <2>1, InjectedKept DEF Injected
<1>4. ASSUME NEW i \in 1..Len(upstream'), upstream'[i].from = "client",
             upstream'[i].session \in Pages
      PROVE  InjectedBefore(upstream', upstream'[i].session, 3, i - 1)
  <2>1. CASE i \in 1..n
    <3>1. InjectedBefore(upstream, upstream[i].session, 3, i - 1)
      BY <1>2, <1>4, <2>1 DEF InjectionInv
    <3>2. i - 1 \in 0..n /\ upstream'[i] = upstream[i]
      BY <1>1, <1>2, <2>1
    <3> QED
      BY <1>1, <3>1, <3>2, InjectedKept
  <2>2. CASE i = n + 1
    <3>1. upstream'[i] = c /\ i - 1 = n
      BY <1>1, <1>2, <2>2
    <3> QED
      BY <1>3, <1>4, <3>1
  <2> QED
    BY <1>1, <1>2, <2>1, <2>2
<1>5. /\ \A i \in 1..Len(delivered) : Injects(delivered[i]) =>
           InjectedBefore(upstream', delivered[i].session, 3, Len(upstream'))
      /\ \A i \in 1..Len(sent) : sent[i].session \in Pages =>
           InjectedBefore(upstream', sent[i].session, 3, Len(upstream'))
  BY <1>3 DEF InjectionInv
<1> QED
  BY <1>4, <1>5 DEF InjectionInv, Injected, Injects

(* A step that sends Chrome nothing.                                       *)
LEMMA InjectionKept ==
  ASSUME InjectionInv, Stealth, UNCHANGED upstream,
         \A i \in 1..Len(delivered') : Injects(delivered'[i]) =>
           Injected(delivered'[i].session, 3),
         \A i \in 1..Len(sent') : sent'[i].session \in Pages =>
           Injected(sent'[i].session, 3),
         pc'["browser"] = "inject" =>
           Injected(Head(downstream').session, batch'["browser"]),
         pc'["browser"] \in {"pause", "forward"} /\ Injects(Head(downstream')) =>
           Injected(Head(downstream').session, 3)
  PROVE  InjectionInv'
BY DEF InjectionInv, Injected, Injects

(* Eiger's commands bring the batch on.                                    *)
LEMMA InjectionSend ==
  ASSUME ControlInv, InjectionInv, Stealth, ReinjectStealth \/ InjectStealth
  PROVE  InjectionInv'
<1> USE DEF ControlInv
<1>1. /\ upstream \in Seq(Commands \cup EigerCommands)
      /\ batch \in [Halves -> 0..2] /\ pc \in [Halves -> HalfPCs]
      /\ "client" \in Halves /\ "browser" \in Halves /\ nextId \in Nat
  BY DEF ProxyTypeOK, Halves
<1>2. UNCHANGED <<sent, delivered, downstream>>
  BY DEF ReinjectStealth, InjectStealth, SendStealthCommand, clientVars
<1>3. CASE ReinjectStealth
  <2>1. PICK c \in Commands \cup EigerCommands :
          upstream' = Append(upstream, c) /\ c.from = "eiger"
    <3>1. ~ForwardCommand
      BY <1>3 DEF ReinjectStealth, SendStealthCommand, ForwardCommand, Proxying
    <3> QED
      BY <1>3, <3>1, UpstreamSteps
  <2>2. pc'["browser"] = pc["browser"] /\ batch'["browser"] = batch["browser"]
    BY <1>1, <1>3 DEF ReinjectStealth, SendStealthCommand, Goto
  <2>3. \A s, n : n \in Nat /\ Injected(s, n) =>
                   InjectedBefore(upstream', s, n, Len(upstream'))
    BY <1>1, <2>1, InjectedKept DEF Injected
  <2>4. /\ pc["browser"] = "inject" =>
             Injected(Head(downstream).session, batch["browser"])
        /\ pc["browser"] \in {"pause", "forward"} /\ Injects(Head(downstream)) =>
             Injected(Head(downstream).session, 3)
        /\ batch["browser"] \in Nat
    BY <1>1 DEF InjectionInv
  <2> QED
    BY <1>2, <2>1, <2>2, <2>3, <2>4, InjectionSent
<1>4. CASE InjectStealth
  <2> DEFINE b == batch["browser"]
             s == Head(downstream).session
             c == [from |-> "eiger", id |-> nextId, session |-> s,
                   method |-> Batch[b + 1]]
  <2>1. /\ upstream' = Append(upstream, c) /\ b \in 0..2
        /\ pc["browser"] = "inject"
    BY <1>1, <1>4 DEF InjectStealth, SendStealthCommand, Proxying
  <2>2. c \in Commands \cup EigerCommands
    BY <1>1, <2>1, SessionsTyped, BatchIs DEF EigerCommands
  <2>3. /\ Len(upstream') = Len(upstream) + 1
        /\ upstream'[Len(upstream) + 1] = c /\ Len(upstream) \in Nat
    BY <1>1, <2>1, <2>2, Appended
  <2>4. InjectedBefore(upstream', s, b, Len(upstream'))
    BY <1>1, <2>1, <2>2, InjectedKept DEF InjectionInv, Injected
  <2>5. InjectedBefore(upstream', s, b + 1, Len(upstream'))
    <3>1. \A k \in 1..(b + 1) : k \in 1..b \/ k = b + 1
      BY <2>1
    <3>2. Len(upstream) + 1 \in 1..Len(upstream')
      BY <2>3
    <3>3. c.from = "eiger" /\ c.method = Batch[b + 1] /\ c.session = s
      OBVIOUS
    <3> QED
      BY <2>3, <2>4, <3>1, <3>2, <3>3 DEF InjectedBefore
  <2>6. \/ b = 2 /\ pc'["browser"] = "pause"
        \/ pc'["browser"] = "inject" /\ batch'["browser"] = b + 1
    BY <1>1, <1>4, <2>1, BatchIs DEF InjectStealth, SendStealthCommand, Goto
  <2>7. c.from = "eiger"
    OBVIOUS
  <2>8. InjectedBefore(upstream', s, 3, Len(upstream')) \/ pc'["browser"] = "inject"
    BY <2>5, <2>6
  <2> HIDE DEF c
  <2> QED
    BY <1>2, <2>1, <2>2, <2>5, <2>6, <2>7, <2>8, InjectionSent
<1> QED
  BY <1>3, <1>4

(* The client only knows sessions whose event it has been delivered.       *)
LEMMA InjectionStep ==
  ControlInv /\ BatchInv /\ InjectionInv /\ [ProxyNext]_cdpVars => InjectionInv'
<1> SUFFICES ASSUME ControlInv, BatchInv, InjectionInv, Stealth,
                    [ProxyNext]_cdpVars
             PROVE  InjectionInv'
  BY DEF InjectionInv
<1> USE DEF ControlInv
<1>1. /\ "client" \in Halves /\ "browser" \in Halves
      /\ pc \in [Halves -> HalfPCs] /\ batch \in [Halves -> 0..2]
      /\ sent \in Seq(Commands) /\ downstream \in Seq(Messages)
      /\ delivered \in Seq(Messages)
  BY DEF Halves, ProxyTypeOK
<1>2. /\ \A i \in 1..Len(delivered) :
           Injects(delivered[i]) => Injected(delivered[i].session, 3)
      /\ \A i \in 1..Len(sent) :
           sent[i].session \in Pages => Injected(sent[i].session, 3)
      /\ pc["browser"] = "inject" =>
           Injected(Head(downstream).session, batch["browser"])
      /\ pc["browser"] \in {"pause", "forward"} /\ Injects(Head(downstream)) =>
           Injected(Head(downstream).session, 3)
  BY DEF InjectionInv
<1>3. CASE ReinjectStealth \/ InjectStealth
  BY <1>3, InjectionSend
<1>4. CASE ForwardCommand
  <2>1. PICK c \in Commands \cup EigerCommands :
          /\ upstream' = Append(upstream, c)
          /\ c.from = "client" => c = sent[taken]
    BY <1>4, UpstreamSteps
  <2>2. UNCHANGED <<sent, delivered, downstream, batch>>
        /\ pc'["browser"] = pc["browser"] /\ taken \in 1..Len(sent)
    BY <1>1, <1>4
    DEF ForwardCommand, Proxying, Goto, clientVars, TakenInv, ProxyTypeOK
  <2>3. upstream \in Seq(Commands \cup EigerCommands)
        /\ Len(upstream) \in 0..Len(upstream)
    BY DEF ProxyTypeOK
  <2>4. ASSUME NEW s, NEW n \in Nat, Injected(s, n)
        PROVE  InjectedBefore(upstream', s, n, Len(upstream'))
    BY <2>1, <2>3, <2>4, InjectedKept DEF Injected
  <2>5. batch["browser"] \in Nat
    BY <1>1
  <2> QED
    BY <1>2, <2>1, <2>2, <2>4, <2>5, InjectionSent
<1>5. CASE \/ TakeCommand \/ EndPause \/ SendFails("client") \/ BeginClose
           \/ CloseUpstream \/ HideAnswer \/ SendFails("browser")
           \/ UpstreamEnds \/ Connect \/ UNCHANGED cdpVars
  <2>1. UNCHANGED <<upstream, sent, delivered, batch>>
    BY <1>5
    DEF TakeCommand, EndPause, SendFails, BeginClose, CloseUpstream, HideAnswer,
        UpstreamEnds, Connect, cdpVars, wireVars, clientVars, proxyVars
  <2>2. \/ pc'["browser"] \in {"next", "done"}
        \/ pc'["browser"] = pc["browser"] /\ UNCHANGED downstream
    BY <1>1, <1>5
    DEF TakeCommand, EndPause, SendFails, BeginClose, CloseUpstream, HideAnswer,
        UpstreamEnds, Connect, Proxying, Goto, cdpVars, wireVars, proxyVars
  <2> QED
    BY <1>2, <2>1, <2>2, InjectionKept
<1>6. CASE TakeMessage
  <2>1. /\ UNCHANGED <<upstream, sent, delivered, batch, downstream>>
        /\ pc["browser"] = "next"
        /\ pc'["browser"] = IF Injects(Head(downstream)) THEN "inject"
                            ELSE "forward"
    BY <1>1, <1>6 DEF TakeMessage, Proxying, Goto, wireVars, clientVars
  <2>2. batch["browser"] = 0
    BY <1>1, <2>1 DEF BatchInv, UnderWay
  <2>3. Injected(Head(downstream).session, 0)
    BY DEF Injected, InjectedBefore
  <2> QED
    BY <1>2, <2>1, <2>2, <2>3, InjectionKept
<1>7. CASE InjectionReturns
  <2>1. /\ UNCHANGED <<upstream, sent, delivered, downstream>>
        /\ pc["browser"] = "pause" /\ pc'["browser"] = "forward"
    BY <1>1, <1>7 DEF InjectionReturns, Proxying, Goto, wireVars, clientVars
  <2> QED
    BY <1>2, <2>1, InjectionKept
<1>8. CASE ForwardMessage
  <2>1. /\ UNCHANGED <<upstream, sent>> /\ pc["browser"] = "forward"
        /\ pc'["browser"] \in {"next", "done"} /\ downstream # <<>>
        /\ delivered' = delivered \/ delivered' = Append(delivered, Head(downstream))
    BY <1>1, <1>8
    DEF ForwardMessage, Proxying, Goto, clientVars, TakenInv
  <2>2. Head(downstream) \in Messages
    BY <2>1, MessageDone
  <2>3. \A i \in 1..Len(delivered') : Injects(delivered'[i]) =>
          Injected(delivered'[i].session, 3)
    <3>1. CASE delivered' = delivered
      BY <1>2, <3>1
    <3>2. CASE delivered' = Append(delivered, Head(downstream))
      <4>1. /\ Len(delivered') = Len(delivered) + 1
            /\ \A i \in 1..Len(delivered) : delivered'[i] = delivered[i]
            /\ delivered'[Len(delivered) + 1] = Head(downstream)
        BY <1>1, <2>2, <3>2, Appended
      <4>2. \A i \in 1..Len(delivered') : i \in 1..Len(delivered)
                                          \/ i = Len(delivered) + 1
        BY <1>1, <4>1
      <4> QED
        BY <1>2, <2>1, <4>1, <4>2
    <3> QED
      BY <2>1, <3>1, <3>2
  <2> QED
    BY <1>2, <2>1, <2>3, InjectionKept
<1>9. CASE Client
  <2>1. UNCHANGED <<pc, upstream, batch, downstream, delivered>>
    BY <1>9
    DEF Client, ClientReads, ClientLeaves, ClientSends, proxyVars, wireVars
  <2>2. CASE UNCHANGED sent
    BY <1>2, <2>1, <2>2, InjectionKept
  <2>3. ASSUME NEW c \in Commands, ClientSends(c)
        PROVE  InjectionInv'
    <3>1. c.session \in Pages => Injected(c.session, 3)
      <4>1. SUFFICES ASSUME c.session \in Pages PROVE Injected(c.session, 3)
        OBVIOUS
      <4>2. PICK i \in 1..seen : delivered[i] = AttachedToTarget(c.session)
        BY <2>3, <4>1, ProxyAssumption DEF ClientSends, Knows
      <4>3. i \in 1..Len(delivered)
        BY DEF ProxyTypeOK
      <4>4. Injects(delivered[i]) /\ delivered[i].session = c.session
        BY <4>1, <4>2 DEF AttachedToTarget, Injects
      <4> QED
        BY <1>2, <4>3, <4>4
    <3>2. /\ Len(sent') = Len(sent) + 1 /\ sent'[Len(sent) + 1] = c
          /\ \A i \in 1..Len(sent) : sent'[i] = sent[i]
      BY <1>1, <2>3, Appended DEF ClientSends
    <3>3. \A i \in 1..Len(sent') : i \in 1..Len(sent) \/ i = Len(sent) + 1
      BY <1>1, <3>2
    <3>4. \A i \in 1..Len(sent') : sent'[i].session \in Pages =>
            Injected(sent'[i].session, 3)
      BY <1>2, <3>1, <3>2, <3>3
    <3> QED
      BY <1>2, <2>1, <3>4, InjectionKept
  <2> QED
    BY <1>9, <2>2, <2>3 DEF Client, ClientReads, ClientLeaves
<1>10. CASE Execute \/ Disconnect \/ \E s \in Sessions : Attach(s)
  <2>1. UNCHANGED <<pc, upstream, batch, sent, delivered>>
    BY <1>10 DEF Execute, Disconnect, Attach, clientVars, proxyVars, wireVars
  <2>2. pc["browser"] \in {"inject", "pause", "forward"} =>
          Head(downstream') = Head(downstream)
    <3>1. downstream' = downstream
          \/ \E m \in Messages : downstream' = Append(downstream, m)
      BY <1>10, ChromeAdds DEF Execute, Disconnect, Attach, wireVars
    <3> QED
      BY <1>1, <3>1, HeadKept DEF TakenInv
  <2> QED
    BY <1>2, <2>1, <2>2, InjectionKept
<1> QED
  BY <1>3, <1>4, <1>5, <1>6, <1>7, <1>8, <1>9, <1>10
  DEF ProxyNext, ClientHalf, BrowserHalf

----------------------------------------------------------------------------
(* The client's commands in order *)

(* The client's commands among the first n messages of a sequence.         *)
ClientsAmong(messages, n) == {i \in 1..n : messages[i].from = "client"}

(* There are at most n of them.                                            *)
LEMMA AmongFinite ==
  ASSUME NEW messages, NEW n \in Nat
  PROVE  /\ IsFiniteSet(ClientsAmong(messages, n))
         /\ Cardinality(ClientsAmong(messages, n)) \in 0..n
<1>1. IsFiniteSet(1..n) /\ Cardinality(1..n) = n
  BY FS_Interval
<1>2. ClientsAmong(messages, n) \in SUBSET (1..n)
  BY DEF ClientsAmong
<1>3. /\ IsFiniteSet(ClientsAmong(messages, n))
      /\ Cardinality(ClientsAmong(messages, n)) <= Cardinality(1..n)
  BY <1>1, <1>2, FS_Subset
<1>4. Cardinality(ClientsAmong(messages, n)) \in Nat
  BY <1>3, FS_CardinalityType
<1> QED
  BY <1>1, <1>3, <1>4

(* Up to one of the client's there is at least one, and not more than      *)
(* there are later.                                                        *)
LEMMA AmongGrows ==
  ASSUME NEW messages, NEW n \in Nat, NEW i \in 1..n,
         messages[i].from = "client"
  PROVE  Cardinality(ClientsAmong(messages, i))
           \in 1..Cardinality(ClientsAmong(messages, n))
<1> DEFINE early == ClientsAmong(messages, i)
           all == ClientsAmong(messages, n)
<1>1. early \in SUBSET all
  BY DEF ClientsAmong
<1>2. i \in early
  BY DEF ClientsAmong
<1>3. /\ IsFiniteSet(early) /\ IsFiniteSet(all)
      /\ Cardinality(early) \in Nat /\ Cardinality(all) \in Nat
  <2>1. i \in Nat
    OBVIOUS
  <2> QED
    BY <2>1, AmongFinite
<1>4. Cardinality(early) <= Cardinality(all)
  BY <1>1, <1>3, FS_Subset
<1>5. Cardinality(early) # 0
  BY <1>2, <1>3, FS_EmptySet
<1> QED
  BY <1>3, <1>4, <1>5

(* One message more counts if it is the client's.                          *)
LEMMA AmongAppended ==
  ASSUME NEW S, NEW messages \in Seq(S), NEW c \in S
  PROVE  /\ \A i \in 0..Len(messages) :
              ClientsAmong(Append(messages, c), i) = ClientsAmong(messages, i)
         /\ Cardinality(ClientsAmong(Append(messages, c), Len(messages) + 1)) =
              Cardinality(ClientsAmong(messages, Len(messages)))
                + IF c.from = "client" THEN 1 ELSE 0
<1> DEFINE longer == Append(messages, c)
           n == Len(messages)
<1>1. /\ n \in Nat
      /\ \A i \in 1..n : longer[i] = messages[i]
      /\ longer[n + 1] = c
  BY Appended
<1>2. \A i \in 0..n : ClientsAmong(longer, i) = ClientsAmong(messages, i)
  <2> HIDE DEF longer
  <2> QED
    BY <1>1 DEF ClientsAmong
<1>3. ClientsAmong(longer, n + 1) =
        ClientsAmong(messages, n) \cup IF c.from = "client" THEN {n + 1} ELSE {}
  <2>1. \A i : i \in 1..(n + 1) <=> i \in 1..n \/ i = n + 1
    BY <1>1
  <2> HIDE DEF longer
  <2> QED
    BY <1>1, <2>1 DEF ClientsAmong
<1>4. n + 1 \notin ClientsAmong(messages, n)
  BY <1>1 DEF ClientsAmong
<1>5. /\ IsFiniteSet(ClientsAmong(messages, n))
      /\ Cardinality(ClientsAmong(messages, n)) \in Nat
  BY <1>1, AmongFinite
<1>6. Cardinality(ClientsAmong(messages, n) \cup {n + 1}) =
        Cardinality(ClientsAmong(messages, n)) + 1
  BY <1>4, <1>5, FS_AddElement
<1> HIDE DEF longer, n
<1>7. CASE c.from = "client"
  BY <1>2, <1>3, <1>6, <1>7 DEF longer, n
<1>8. CASE c.from # "client"
  <2>1. ClientsAmong(longer, n + 1) = ClientsAmong(messages, n)
    BY <1>3, <1>8
  <2>2. Cardinality(ClientsAmong(messages, n)) + 0
          = Cardinality(ClientsAmong(messages, n))
    BY <1>5
  <2> QED
    BY <1>2, <1>8, <2>1, <2>2 DEF longer, n
<1> QED
  BY <1>7, <1>8

(* What Chrome was sent of the client is what was taken of it, but for the *)
(* command in hand.                                                        *)
ForwardInv ==
  /\ \A i \in 1..Len(upstream) :
       upstream[i].from = "client" => upstream[i] = sent[Forwarded(i)]
  /\ Forwarded(Len(upstream)) \in {taken - 1, taken}
  /\ pc["client"] # "done" =>
       Forwarded(Len(upstream)) = IF HasCommand THEN taken - 1 ELSE taken

(* Forwarding sends the command in hand, and nothing else counts.          *)
LEMMA ForwardStep ==
  ControlInv /\ ForwardInv /\ [ProxyNext]_cdpVars => ForwardInv'
<1> SUFFICES ASSUME ControlInv, ForwardInv, [ProxyNext]_cdpVars
             PROVE  ForwardInv'
  OBVIOUS
<1>1. /\ "client" \in Halves /\ "browser" \in Halves
      /\ pc \in [Halves -> HalfPCs]
      /\ upstream \in Seq(Commands \cup EigerCommands) /\ Len(upstream) \in Nat
      /\ sent \in Seq(Commands) /\ taken \in 0..Len(sent)
  BY DEF Halves, ControlInv, ProxyTypeOK
<1>2. \A n : Forwarded(n) = Cardinality(ClientsAmong(upstream, n))
             /\ Forwarded(n)' = Cardinality(ClientsAmong(upstream', n))
  BY DEF Forwarded, ClientsAmong
<1>3. \A i \in 1..Len(upstream) : upstream[i].from = "client" =>
        Forwarded(i) \in 1..taken
  <2> SUFFICES ASSUME NEW i \in 1..Len(upstream), upstream[i].from = "client"
               PROVE  Forwarded(i) \in 1..taken
    OBVIOUS
  <2>1. Cardinality(ClientsAmong(upstream, i))
          \in 1..Cardinality(ClientsAmong(upstream, Len(upstream)))
    BY <1>1, AmongGrows
  <2>2. Forwarded(i) \in 1..Forwarded(Len(upstream))
    BY <1>2, <2>1
  <2>3. Forwarded(Len(upstream)) \in {taken - 1, taken}
    BY DEF ForwardInv
  <2> HIDE DEF Forwarded
  <2> QED
    BY <1>1, <2>2, <2>3
<1> DEFINE inHand == {"inject", "pause", "forward"}
<1>4. ASSUME UNCHANGED upstream, \A i \in 1..taken : sent'[i] = sent[i],
             \/ UNCHANGED <<taken, pc>>
             \/ taken' = taken /\ pc'["client"] = pc["client"]
             \/ taken' = taken /\ pc'["client"] = "done"
             \/ /\ taken' = taken
                /\ pc["client"] \in inHand <=> pc'["client"] \in inHand
                /\ pc["client"] # "done"
             \/ /\ taken' = taken + 1
                /\ pc["client"] = "next" /\ pc'["client"] \in inHand
      PROVE  ForwardInv'
  <2>1. \A n : Forwarded(n)' = Forwarded(n)
    BY <1>4 DEF Forwarded
  <2>2. /\ (HasCommand <=> pc["client"] \in inHand)
        /\ (HasCommand' <=> pc'["client"] \in inHand)
    BY DEF HasCommand
  <2>3. \A i \in 1..Len(upstream') : upstream'[i].from = "client" =>
          upstream'[i] = sent'[Forwarded(i)']
    BY <1>3, <1>4, <2>1 DEF ForwardInv
  <2>4. /\ Forwarded(Len(upstream))' \in {taken' - 1, taken'}
        /\ pc'["client"] # "done" =>
             Forwarded(Len(upstream))' = IF HasCommand' THEN taken' - 1 ELSE taken'
    <3>1. Forwarded(Len(upstream))' = Forwarded(Len(upstream))
      BY <1>4, <2>1
    <3> QED
      BY <1>1, <1>4, <2>2, <3>1 DEF ForwardInv
  <2> QED
    BY <2>3, <2>4 DEF ForwardInv
<1>5. CASE ReinjectStealth \/ InjectStealth \/ ForwardCommand
  <2>1. PICK c \in Commands \cup EigerCommands :
          /\ upstream' = Append(upstream, c)
          /\ \/ c.from = "eiger"
             \/ ForwardCommand /\ c = sent[taken] /\ c.from = "client"
    BY <1>5, UpstreamSteps
  <2>2. /\ UNCHANGED <<sent, taken>> /\ pc["client"] # "done"
        /\ c.from # "client" =>
             (pc["client"] \in inHand <=> pc'["client"] \in inHand)
               /\ pc'["client"] # "done"
        /\ c.from = "client" =>
             pc["client"] = "forward" /\ pc'["client"] = "next"
    <3>1. CASE ForwardCommand /\ c.from = "client"
      BY <1>1, <3>1
      DEF ForwardCommand, Proxying, Goto, clientVars, Ended, Halves
    <3>2. CASE (ReinjectStealth \/ InjectStealth) /\ c.from = "eiger"
      <4>1. CASE ReinjectStealth
        <5>1. /\ UNCHANGED <<sent, taken>> /\ pc["client"] = "inject"
              /\ pc' = pc \/ pc' = [pc EXCEPT !["client"] = "pause"]
          BY <4>1
          DEF ReinjectStealth, SendStealthCommand, Proxying, Goto, clientVars
        <5> QED
          BY <1>1, <3>2, <5>1
      <4>2. CASE InjectStealth
        <5>1. /\ UNCHANGED <<sent, taken>> /\ ~Ended
              /\ pc' = pc \/ pc' = [pc EXCEPT !["browser"] = "pause"]
          BY <4>2
          DEF InjectStealth, SendStealthCommand, Proxying, Goto, clientVars
        <5>2. pc["client"] # "done"
          BY <1>1, <5>1 DEF Ended
        <5>3. pc'["client"] = pc["client"]
          BY <1>1, <5>1
        <5> QED
          BY <3>2, <5>1, <5>2, <5>3
      <4> QED
        BY <3>2, <4>1, <4>2
    <3>3. CASE ForwardCommand /\ c.from = "eiger"
      <4>1. upstream' = Append(upstream, sent[taken])
            /\ pc["client"] = "forward"
        BY <3>3 DEF ForwardCommand, Proxying
      <4>2. sent[taken] \in Commands
        BY <1>1, <4>1 DEF ControlInv, TakenInv
      <4>3. Append(upstream, sent[taken])[Len(upstream) + 1] = sent[taken]
        BY <1>1, <4>2, Appended
      <4>4. Append(upstream, c)[Len(upstream) + 1] = c
        BY <1>1, Appended
      <4>5. c.from = "client"
        BY <2>1, <4>1, <4>2, <4>3, <4>4, ProxyAssumption
      <4> QED
        BY <3>3, <4>5
    <3> QED
      BY <1>5, <2>1, <3>1, <3>2, <3>3
  <2>3. /\ Len(upstream') = Len(upstream) + 1
        /\ \A i \in 1..Len(upstream) : upstream'[i] = upstream[i]
        /\ upstream'[Len(upstream) + 1] = c
    BY <1>1, <2>1, Appended
  <2>4. \A i \in 0..Len(upstream) : Forwarded(i)' = Forwarded(i)
    BY <1>1, <1>2, <2>1, AmongAppended
  <2>0. PICK n \in Nat : n = Len(upstream) + 1
    BY <1>1
  <2>5. Forwarded(n)' =
          Forwarded(Len(upstream)) + IF c.from = "client" THEN 1 ELSE 0
    <3>1. Forwarded(n)' =
            Cardinality(ClientsAmong(Append(upstream, c), Len(upstream) + 1))
      BY <1>2, <2>0, <2>1
    <3>2. Forwarded(Len(upstream)) =
            Cardinality(ClientsAmong(upstream, Len(upstream)))
      BY <1>2
    <3> QED
      BY <1>1, <3>1, <3>2, AmongAppended
  <2>6. /\ (HasCommand <=> pc["client"] \in inHand)
        /\ (HasCommand' <=> pc'["client"] \in inHand)
    BY DEF HasCommand
  <2>7. Forwarded(Len(upstream)) = IF HasCommand THEN taken - 1 ELSE taken
    BY <2>2 DEF ForwardInv
  <2>8. Forwarded(n)' = IF HasCommand' THEN taken - 1 ELSE taken
    <3>1. CASE c.from = "client"
      <4>1. HasCommand /\ ~HasCommand'
        BY <2>2, <2>6, <3>1
      <4> QED
        BY <1>1, <2>5, <2>7, <3>1, <4>1
    <3>2. CASE c.from # "client"
      <4>1. HasCommand <=> HasCommand'
        BY <2>2, <2>6, <3>2
      <4> QED
        BY <1>1, <2>5, <2>7, <3>2, <4>1
    <3> QED
      BY <3>1, <3>2
  <2>9. \A i \in 1..Len(upstream') : upstream'[i].from = "client" =>
          upstream'[i] = sent'[Forwarded(i)']
    <3> SUFFICES ASSUME NEW i \in 1..Len(upstream'),
                        upstream'[i].from = "client"
                 PROVE  upstream'[i] = sent[Forwarded(i)']
      BY <2>2
    <3>1. CASE i \in 1..Len(upstream)
      <4>1. Forwarded(i)' = Forwarded(i) /\ upstream'[i] = upstream[i]
        BY <1>1, <2>3, <2>4, <3>1
      <4> QED
        BY <3>1, <4>1 DEF ForwardInv
    <3>2. CASE i = Len(upstream) + 1
      <4>1. c = sent[taken] /\ ~HasCommand'
        BY <2>1, <2>2, <2>3, <2>6, <3>2
      <4>2. i = n /\ upstream'[i] = c
        BY <2>0, <2>3, <3>2
      <4>3. Forwarded(n)' = taken
        BY <2>8, <4>1
      <4> QED
        BY <4>1, <4>2, <4>3
    <3> QED
      BY <1>1, <2>3, <3>1, <3>2
  <2>10. Forwarded(Len(upstream))' = IF HasCommand' THEN taken - 1 ELSE taken
    <3>1. Len(upstream)' = n
      BY <2>0, <2>3
    <3> QED
      BY <2>8, <3>1
  <2> QED
    BY <2>2, <2>9, <2>10 DEF ForwardInv
<1>6. CASE TakeCommand
  <2>1. /\ UNCHANGED <<upstream, sent>> /\ taken' = taken + 1
        /\ pc["client"] = "next" /\ pc'["client"] \in inHand
    BY <1>1, <1>6 DEF TakeCommand, Proxying, Goto, wireVars, clientVars
  <2> QED
    BY <1>4, <2>1
<1>7. CASE EndPause \/ SendFails("client") \/ BeginClose \/ CloseUpstream
  <2>1. /\ UNCHANGED <<upstream, sent, taken>>
        /\ \/ pc'["client"] = "done"
           \/ /\ pc["client"] \in inHand <=> pc'["client"] \in inHand
              /\ pc["client"] # "done"
    BY <1>1, <1>7
    DEF EndPause, SendFails, BeginClose, CloseUpstream, Proxying, Goto,
        wireVars, clientVars
  <2> QED
    BY <1>4, <2>1
<1>8. CASE HideAnswer \/ TakeMessage \/ InjectionReturns \/ ForwardMessage
           \/ SendFails("browser") \/ UpstreamEnds
  <2>1. UNCHANGED <<upstream, sent, taken>> /\ pc'["client"] = pc["client"]
    BY <1>1, <1>8
    DEF HideAnswer, TakeMessage, InjectionReturns, ForwardMessage, SendFails,
        UpstreamEnds, Goto, wireVars, clientVars, proxyVars
  <2> QED
    BY <1>4, <2>1
<1>9. CASE Connect
  <2>1. /\ UNCHANGED <<upstream, sent, taken>> /\ pc["client"] = "connect"
        /\ pc'["client"] \in {"next", "done"}
    BY <1>1, <1>9 DEF Connect, wireVars, clientVars
  <2> QED
    BY <1>4, <2>1
<1>10. CASE Client
  <2>1. UNCHANGED <<upstream, taken, pc>>
    BY <1>10
    DEF Client, ClientReads, ClientLeaves, ClientSends, proxyVars, wireVars
  <2>2. sent' = sent \/ \E c \in Commands : sent' = Append(sent, c)
    BY <1>10 DEF Client, ClientReads, ClientLeaves, ClientSends
  <2>3. \A c \in Commands, i \in 1..Len(sent) : Append(sent, c)[i] = sent[i]
    BY <1>1, Appended
  <2>4. \A i \in 1..taken : sent'[i] = sent[i]
    BY <1>1, <2>2, <2>3
  <2> QED
    BY <1>4, <2>1, <2>4
<1>11. CASE Execute \/ Disconnect \/ (\E s \in Sessions : Attach(s))
            \/ UNCHANGED cdpVars
  <2>1. UNCHANGED <<upstream, sent, taken, pc>>
    BY <1>11
    DEF Execute, Disconnect, Attach, cdpVars, clientVars, proxyVars, wireVars
  <2> QED
    BY <1>4, <2>1
<1> QED
  BY <1>5, <1>6, <1>7, <1>8, <1>9, <1>10, <1>11
  DEF ProxyNext, ClientHalf, BrowserHalf

----------------------------------------------------------------------------
(* The theorems *)

ProxyInv ==
  /\ ControlInv /\ OwnInv /\ BatchInv /\ NavigationInv /\ InjectionInv
  /\ ForwardInv
  /\ \A i \in 1..executed : AnswerOf(upstream[i])

(* Nothing has been sent yet.                                              *)
LEMMA ProxyInvInitially ==
  ASSUME NEW at \in {"connect", "done"}, ProxyStart(at)
  PROVE  ProxyInv
<1>1. ControlInv
  BY ControlInitial
<1>2. /\ Len(upstream) = 0 /\ Len(downstream) = 0 /\ Len(delivered) = 0
      /\ Len(sent) = 0 /\ executed = 0
      /\ \A h \in Halves : pc[h] = at /\ batch[h] = 0
  BY DEF ProxyStart
<1>3. OwnInv /\ \A i \in 1..executed : AnswerOf(upstream[i])
  BY <1>2 DEF OwnInv
<1>4. BatchInv /\ NavigationInv /\ InjectionInv
  BY <1>2 DEF BatchInv, NavigationInv, InjectionInv, Halves
<1>5. ForwardInv
  <2>1. ClientsAmong(upstream, 0) = {}
    BY DEF ClientsAmong
  <2>2. Forwarded(Len(upstream)) = 0
    BY <1>2, <2>1, FS_EmptySet DEF Forwarded, ClientsAmong
  <2>3. taken = 0 /\ pc["client"] = at /\ ~HasCommand
    BY DEF ProxyStart, Halves, HasCommand
  <2>4. Forwarded(Len(upstream)) = taken
    BY <2>2, <2>3
  <2> QED
    BY <1>2, <2>3, <2>4 DEF ForwardInv
<1> QED
  BY <1>1, <1>3, <1>4, <1>5 DEF ProxyInv

(* Every step keeps it.                                                    *)
LEMMA ProxyInvStep == ProxyInv /\ [ProxyNext]_cdpVars => ProxyInv'
BY ControlStep, OwnStep, BatchStep, NavigationStep, InjectionStep, AnswersStep,
   ForwardStep
DEF ProxyInv

(* The invariant of the proxy, in every reachable state.                   *)
THEOREM ProxyInvariance == ProxySpec => []ProxyInv
<1>1. ProxyInit => ProxyInv
  BY ProxyInvInitially DEF ProxyInit
<1>2. ProxyInv /\ [ProxyNext]_cdpVars => ProxyInv'
  BY ProxyInvStep
<1> QED
  BY <1>1, <1>2, PTL DEF ProxySpec

(* What it gives.                                                          *)
LEMMA ProxySafety ==
  ASSUME ProxyInv
  PROVE  /\ ProxyTypeOK /\ InjectionFirst /\ BatchesWhole
         /\ NavigationReinjected /\ OwnAnswersHidden /\ AnswersKept
         /\ ForwardedInOrder
<1>1. ProxyInv => ProxyTypeOK
  BY DEF ProxyInv, ControlInv
<1>2. ProxyInv => InjectionFirst
  <2> SUFFICES ASSUME ProxyInv, Stealth, NEW i \in DOMAIN upstream,
                      upstream[i].from = "client", upstream[i].session \in Pages,
                      NEW k \in DOMAIN Batch
               PROVE  \E j \in 1..(i - 1) :
                        /\ upstream[j].from = "eiger"
                        /\ upstream[j].method = Batch[k]
                        /\ upstream[j].session = upstream[i].session
    BY DEF InjectionFirst
  <2>1. i \in 1..Len(upstream) /\ k \in 1..3
    BY BatchIs DEF ProxyInv, ControlInv, ProxyTypeOK
  <2> QED
    BY <2>1 DEF ProxyInv, InjectionInv, InjectedBefore
<1>3. ProxyInv => BatchesWhole
  <2>1. ProxyInv => DOMAIN upstream = 1..Len(upstream)
    BY DEF ProxyInv, ControlInv, ProxyTypeOK
  <2> QED
    BY <2>1 DEF ProxyInv, BatchInv, Follows, BatchesWhole
<1>4. ProxyInv => NavigationReinjected
  <2> SUFFICES ASSUME ProxyInv,
                      NEW i \in DOMAIN upstream,
                      Stealth /\ upstream[i].from = "client",
                      upstream[i].method = "navigate"
                        /\ upstream[i].session # NoSession
               PROVE  \E j \in 1..(i - 1) :
                        /\ upstream[j].method = "evaluate"
                        /\ upstream[j].session = upstream[i].session
                        /\ \A k \in j..(i - 1) : upstream[k].from = "eiger"
    BY DEF NavigationReinjected
  <2>1. i \in 1..Len(upstream) /\ Navigates(upstream[i])
    BY DEF ProxyInv, ControlInv, ProxyTypeOK, Navigates
  <2>2. EvaluatedBefore(upstream, upstream[i].session, i - 1)
    BY <2>1 DEF ProxyInv, NavigationInv
  <2> QED
    BY <2>2 DEF EvaluatedBefore
<1>5. ProxyInv => OwnAnswersHidden
  <2>1. ProxyInv => DOMAIN delivered = 1..Len(delivered)
    BY DEF ProxyInv, ControlInv, ProxyTypeOK
  <2> QED
    BY <2>1 DEF ProxyInv, OwnInv, OwnAnswersHidden
<1>6. ProxyInv => AnswersKept
  <2>1. ProxyInv => /\ DOMAIN downstream = 1..Len(downstream)
                    /\ DOMAIN delivered = 1..Len(delivered)
    BY DEF ProxyInv, ControlInv, ProxyTypeOK
  <2> QED
    BY <2>1 DEF ProxyInv, AnswerOf, AnswersKept
<1>7. ProxyInv => ForwardedInOrder
  <2>1. ProxyInv => DOMAIN upstream = 1..Len(upstream)
    BY DEF ProxyInv, ControlInv, ProxyTypeOK
  <2> QED
    BY <2>1 DEF ProxyInv, ForwardInv, ForwardedInOrder
<1> QED
  BY <1>1, <1>2, <1>3, <1>4, <1>5, <1>6, <1>7

(* Every variable of proxy_websocket and its connections keeps its type.   *)
THEOREM ProxyTypes == ProxySpec => []ProxyTypeOK
BY ProxySafety, ProxyInvariance, PTL

(* Whatever the client sends to a page and whenever it does,               *)
(* upstream_to_client has had the scripts sent there before.               *)
THEOREM ScriptsFirst == ProxySpec => []InjectionFirst
BY ProxySafety, ProxyInvariance, PTL

(* Both halves send batches on one connection, and none is torn apart.     *)
THEOREM WholeBatches == ProxySpec => []BatchesWhole
BY ProxySafety, ProxyInvariance, PTL

(* A page that navigates has been given the scripts again just before.     *)
THEOREM ScriptsAgain == ProxySpec => []NavigationReinjected
BY ProxySafety, ProxyInvariance, PTL

(* The client is never delivered an answer to one of Eiger's commands.     *)
THEOREM OwnAnswers == ProxySpec => []OwnAnswersHidden
BY ProxySafety, ProxyInvariance, PTL

(* No answer to a command of the client with an id below                   *)
(* EIGER_CDP_ID_START is lost on its way.                                  *)
THEOREM ClientAnswers == ProxySpec => []AnswersKept
BY ProxySafety, ProxyInvariance, PTL

(* Whatever batches come between them, the commands of the client reach    *)
(* Chrome in the order in which client_to_upstream took them, each once,   *)
(* and none is left behind when the next is taken.                         *)
THEOREM CommandsInOrder == ProxySpec => []ForwardedInOrder
BY ProxySafety, ProxyInvariance, PTL

----------------------------------------------------------------------------
(* Who has the lock *)

Sends(h) ==
  pc[h] \in IF h = "client" THEN {"inject", "pause", "forward", "close"}
            ELSE {"inject", "pause"}
Queued(list, h) == \E i \in 1..Len(list) : list[i] = h

(* upstream_sender is held, or asked for, by the halves that have          *)
(* something to send to Chrome, by each of them and by no other: not by    *)
(* one that waits until the client reads, or sends.                        *)
LockOfSenders == ~Ended => \A h \in Halves : Sends(h) <=> Queued(lock, h)

AskedInv ==
  /\ pc["browser"] # "close"
  /\ ~Ended => \A h \in Halves : Sends(h) => Queued(lock, h)

(* Those who are in the queue stay there when another one comes.           *)
LEMMA QueuedAppended ==
  ASSUME lock \in Seq(Halves), NEW h \in Halves
  PROVE  /\ Queued(Append(lock, h), h)
         /\ \A g \in Halves : Queued(lock, g) => Queued(Append(lock, h), g)
<1>1. /\ Len(Append(lock, h)) = Len(lock) + 1 /\ Len(lock) \in Nat
      /\ \A i \in 1..Len(lock) : Append(lock, h)[i] = lock[i]
      /\ Append(lock, h)[Len(lock) + 1] = h
  BY Appended
<1>2. Len(lock) + 1 \in 1..Len(Append(lock, h))
      /\ \A i \in 1..Len(lock) : i \in 1..Len(Append(lock, h))
  BY <1>1
<1> QED
  BY <1>1, <1>2 DEF Queued

(* Only the holder leaves it.                                              *)
LEMMA QueuedTail ==
  ASSUME lock \in Seq(Halves), lock # <<>>, NEW g \in Halves, g # Head(lock),
         Queued(lock, g)
  PROVE  Queued(Tail(lock), g)
<1>1. PICK i \in 1..Len(lock) : lock[i] = g
  BY DEF Queued
<1>2. /\ Len(Tail(lock)) = Len(lock) - 1 /\ Len(lock) \in Nat
      /\ \A k \in 1..Len(Tail(lock)) : Tail(lock)[k] = lock[k + 1]
      /\ Head(lock) = lock[1]
  BY Rest
<1>3. i - 1 \in 1..Len(Tail(lock)) /\ (i - 1) + 1 = i
  BY <1>1, <1>2
<1> QED
  BY <1>1, <1>2, <1>3 DEF Queued

(* A half asks for the lock before it sends, and lets it go after.         *)
LEMMA AskedStep == ControlInv /\ AskedInv /\ [ProxyNext]_cdpVars => AskedInv'
<1> SUFFICES ASSUME ControlInv, AskedInv, [ProxyNext]_cdpVars
             PROVE  AskedInv'
  OBVIOUS
<1>1. /\ pc \in [Halves -> HalfPCs] /\ lock \in Seq(Halves)
      /\ "client" \in Halves /\ "browser" \in Halves
      /\ \A h \in Halves : h = "client" \/ h = "browser"
      /\ pc["browser"] # "close"
  BY DEF ControlInv, ProxyTypeOK, Halves, AskedInv
<1>2. ASSUME ~Ended, pc'["browser"] # "close",
             \A h \in Halves : /\ Queued(lock, h) => Queued(lock', h)
                               /\ Sends(h)' => Sends(h) \/ Queued(lock', h)
      PROVE  AskedInv'
  <2> SUFFICES ASSUME NEW h \in Halves, Sends(h)'
               PROVE  Queued(lock', h)
    BY <1>2 DEF AskedInv, Queued
  <2> QED
    BY <1>2 DEF AskedInv
<1>3. CASE UNCHANGED <<pc, lock>>
  BY <1>3 DEF AskedInv, Ended, Sends, Queued
<1>4. CASE Ended' /\ pc'["browser"] # "close"
  BY <1>4 DEF AskedInv
<1>5. CASE Connect
  <2>1. \A h \in Halves : pc'[h] \in {"next", "done"}
    BY <1>1, <1>5 DEF Connect
  <2> QED
    BY <1>1, <2>1 DEF AskedInv, Sends
<1>6. ASSUME NEW h \in Halves, NEW s, SendStealthCommand(h, s)
      PROVE  AskedInv'
  <2>1. lock' = lock /\ pc[h] = "inject" /\ ~Ended
        /\ (pc' = pc \/ pc' = [pc EXCEPT ![h] = "pause"])
    BY <1>6 DEF SendStealthCommand, LockInBatch, Goto, Proxying
  <2>2. pc'["browser"] # "close" /\ \A g \in Halves : Sends(g)' => Sends(g)
    BY <1>1, <2>1 DEF Sends
  <2> QED
    BY <1>2, <2>1, <2>2
<1>7. CASE TakeCommand \/ BeginClose
  <2>1. /\ lock' = Append(lock, "client") /\ ~Ended
        /\ pc'["browser"] = pc["browser"]
    BY <1>1, <1>7 DEF TakeCommand, BeginClose, Goto, Proxying
  <2>2. \A h \in Halves : /\ Queued(lock, h) => Queued(lock', h)
                          /\ Sends(h)' => Sends(h) \/ Queued(lock', h)
    BY <1>1, <2>1, QueuedAppended DEF Sends
  <2> QED
    BY <1>1, <1>2, <2>1, <2>2
<1>8. CASE TakeMessage
  <2>1. /\ ~Ended /\ pc'["client"] = pc["client"] /\ pc'["browser"] # "close"
        /\ \/ pc'["browser"] = "forward" /\ lock' = lock
           \/ lock' = Append(lock, "browser")
    BY <1>1, <1>8 DEF TakeMessage, Goto, Proxying
  <2>2. \A h \in Halves : Queued(lock, h) => Queued(lock', h)
    BY <1>1, <2>1, QueuedAppended
  <2>3. \A h \in Halves : Sends(h)' => Sends(h) \/ Queued(lock', h)
    BY <1>1, <2>1, QueuedAppended DEF Sends
  <2> QED
    BY <1>2, <2>1, <2>2, <2>3
<1>9. CASE EndPause \/ ForwardCommand \/ InjectionReturns
  <2>1. PICK h \in Halves, other \in Halves :
          /\ h # other /\ Holds(h) /\ ~Ended
          /\ pc'[other] = pc[other] /\ pc'["browser"] # "close"
          /\ \/ lock' = Append(Tail(lock), h)
             \/ lock' = Tail(lock) /\ ~Sends(h)'
    <3>1. CASE EndPause
      <4>1. Holds("client")
        BY <1>1, <3>1 DEF EndPause, Proxying, ControlInv, LockInv
      <4> QED
        BY <1>1, <3>1, <4>1 DEF EndPause, Proxying, Goto
    <3>2. CASE ForwardCommand
      BY <1>1, <3>2 DEF ForwardCommand, Proxying, Goto, Sends
    <3>3. CASE InjectionReturns
      <4>1. Holds("browser")
        BY <1>1, <3>3 DEF InjectionReturns, Proxying, ControlInv, LockInv
      <4> QED
        BY <1>1, <3>3, <4>1
        DEF InjectionReturns, GuardDropped, Proxying, Goto, Sends
    <3> QED
      BY <1>9, <3>1, <3>2, <3>3
  <2>2. Queued(lock, other) => Queued(Tail(lock), other)
    BY <1>1, <2>1, QueuedTail DEF Holds
  <2>3. Queued(lock, other) => Queued(lock', other)
    <3>1. Tail(lock) \in Seq(Halves)
      BY <1>1, <2>1, Rest DEF Holds
    <3>2. Queued(Tail(lock), other) => Queued(Append(Tail(lock), h), other)
      <4>1. /\ Len(Append(Tail(lock), h)) = Len(Tail(lock)) + 1
            /\ Len(Tail(lock)) \in Nat
            /\ \A i \in 1..Len(Tail(lock)) :
                 Append(Tail(lock), h)[i] = Tail(lock)[i]
        BY <3>1, Appended
      <4>2. \A i \in 1..Len(Tail(lock)) : i \in 1..Len(Append(Tail(lock), h))
        BY <4>1
      <4> QED
        BY <4>1, <4>2 DEF Queued
    <3> QED
      BY <2>1, <2>2, <3>2
  <2>4. Queued(lock', h) \/ ~Sends(h)'
    <3>1. CASE lock' = Append(Tail(lock), h)
      <4>1. Tail(lock) \in Seq(Halves)
        BY <1>1, <2>1, Rest DEF Holds
      <4>2. /\ Len(lock') = Len(Tail(lock)) + 1 /\ Len(Tail(lock)) \in Nat
            /\ lock'[Len(Tail(lock)) + 1] = h
        BY <3>1, <4>1, Appended
      <4> QED
        BY <4>2 DEF Queued
    <3> QED
      BY <2>1, <3>1
  <2>5. Sends(other)' => Sends(other)
    BY <2>1 DEF Sends
  <2>6. \A x \in Halves : x = h \/ x = other
    BY <1>1, <2>1
  <2> SUFFICES ASSUME NEW x \in Halves, ~Ended', Sends(x)'
               PROVE  Queued(lock', x)
    BY <2>1 DEF AskedInv, Queued
  <2>7. CASE x = h
    BY <2>4, <2>7
  <2>8. CASE x = other
    BY <2>1, <2>3, <2>5, <2>8 DEF AskedInv
  <2> QED
    BY <2>6, <2>7, <2>8
<1>10. CASE HideAnswer \/ Execute \/ Disconnect \/ Client
            \/ \E s \in Sessions : Attach(s)
  <2>1. UNCHANGED <<pc, lock>>
    BY <1>10
    DEF HideAnswer, Execute, Disconnect, Client, ClientReads, ClientLeaves,
        ClientSends, Attach, proxyVars
  <2> QED
    BY <1>3, <2>1
<1>11. CASE SendFails("client") \/ SendFails("browser") \/ CloseUpstream
            \/ UpstreamEnds
  <2>1. PICK h \in Halves : pc' = [pc EXCEPT ![h] = "done"]
    BY <1>1, <1>11 DEF SendFails, CloseUpstream, UpstreamEnds, Goto
  <2>2. Ended' /\ pc'["browser"] # "close"
    BY <1>1, <2>1 DEF Ended
  <2> QED
    BY <1>4, <2>2
<1>12. CASE ForwardMessage
  <2>1. /\ lock' = lock /\ ~Ended /\ pc'["client"] = pc["client"]
        /\ pc'["browser"] \in {"next", "done"}
    BY <1>1, <1>12 DEF ForwardMessage, Goto, Proxying
  <2>2. \A h \in Halves : Sends(h)' => Sends(h)
    BY <1>1, <2>1 DEF Sends
  <2> QED
    BY <1>2, <2>1, <2>2
<1>13. CASE UNCHANGED cdpVars
  BY <1>3, <1>13 DEF cdpVars, proxyVars
<1> QED
  BY <1>1, <1>3, <1>5, <1>6, <1>7, <1>8, <1>9, <1>10, <1>11, <1>12, <1>13
  DEF ProxyNext, ClientHalf, BrowserHalf, ReinjectStealth, InjectStealth

(* Neither half of proxy_websocket has the lock while it waits for the     *)
(* client: whoever is ahead in the queue waits for Chrome or a timer only. *)
THEOREM LockNeverOnClient == ProxySpec => []LockOfSenders
<1>1. ProxyInit => AskedInv
  BY DEF ProxyInit, ProxyStart, AskedInv, Sends, Halves
<1>2. ControlInv /\ AskedInv => LockOfSenders
  <2> SUFFICES ASSUME ControlInv, AskedInv, ~Ended, NEW h \in Halves,
                      Queued(lock, h)
               PROVE  Sends(h)
    BY DEF LockOfSenders, AskedInv
  <2>1. pc[h] \notin {"connect", "next", "done"} /\ pc[h] \in HalfPCs
        /\ (h = "browser" => pc[h] \notin {"forward", "close"})
    BY DEF ControlInv, ProxyTypeOK, LockInv, Queued, Ended, AskedInv
  <2> QED
    BY <2>1 DEF HalfPCs, Halves, Sends
<1>3. ProxyInv => ControlInv
  BY DEF ProxyInv
<1>4. ProxyInv /\ AskedInv /\ [ProxyNext]_cdpVars => AskedInv'
  BY <1>3, AskedStep
<1> QED
  BY <1>1, <1>2, <1>3, <1>4, ProxyInvariance, PTL DEF ProxySpec

=============================================================================
