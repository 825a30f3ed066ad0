-------------------------- MODULE ProvisioningProofs --------------------------
(***************************************************************************)
(* Provisioning, for any number of devices, attempts and records: types;   *)
(* a provisioned node keeps its key, and the provisioner has saved that    *)
(* key or none; each attempt is reported once, in its own mode, but for    *)
(* the timeout task that is under way.                                     *)
(*                                                                         *)
(* For the keys, PDUs are on a link only once the provisioning that is     *)
(* made over it has begun (LinkInv), and so what is there is of the        *)
(* controller's present data (PduInv).  For the outcomes, the controller   *)
(* runs only for the attempt being made, which has no outcome yet          *)
(* (AttemptInv, OutcomeInv).                                               *)
(***************************************************************************)
EXTENDS Provisioning, TLAPS

-----------------------------------------------------------------------------
(* The nodes.                                                               *)

\* What a PDU to a node carries.
LEMMA ToNodeFacts ==
    ASSUME NEW pdu \in ToNodePdus
    PROVE  /\ pdu.type = "PUBLIC_KEY" => pdu.key \in Nat
           /\ pdu.type = "CONFIRMATION" => pdu.confirm \in Confirms
           /\ pdu.type = "DATA" => pdu.secret \in Secrets
    BY DEF ToNodePdus, Plain, Start

\* What a PDU to the phone carries.
LEMMA ToPhoneFacts ==
    ASSUME NEW pdu \in ToPhonePdus
    PROVE  /\ pdu.type \in {"RECORDS_LIST", "RECORD_RESPONSE", "RANDOM", "COMPLETE", "FAILED",
                            "CAPABILITIES", "PUBLIC_KEY", "CONFIRMATION"}
           /\ pdu.type = "PUBLIC_KEY" => pdu.key \in Devices
           /\ pdu.type = "CONFIRMATION" => pdu.confirm \in Confirms
           /\ pdu.type = "CAPABILITIES" => pdu.static \in BOOLEAN /\ pdu.oobKey \in BOOLEAN
    BY DEF ToPhonePdus, Plain

\* The PDUs a node sends.
LEMMA NodeSends ==
    /\ \A t \in {"RECORDS_LIST", "RECORD_RESPONSE", "RANDOM", "COMPLETE", "FAILED"} :
           Plain(t) \in ToPhonePdus /\ Plain(t).type = t
    /\ \A d \in Devices : /\ Capabilities(d) \in ToPhonePdus
                          /\ Capabilities(d).type = "CAPABILITIES"
                          /\ PublicKey(d) \in ToPhonePdus /\ PublicKey(d).type = "PUBLIC_KEY"
    /\ \A c \in Confirms : /\ Confirmation(c) \in ToPhonePdus
                           /\ Confirmation(c).type = "CONFIRMATION"
    BY DEF ToPhonePdus, Plain, Capabilities, PublicKey, Confirmation

\* The PDUs the provisioner sends.
LEMMA PhoneSends ==
    /\ \A t \in {"RECORDS_GET", "RECORD_REQUEST", "INVITE", "RANDOM"} :
           Plain(t) \in ToNodePdus /\ Plain(t).type = t
    /\ \A k, s \in BOOLEAN : Start(k, s) \in ToNodePdus /\ Start(k, s).type = "START"
    /\ \A k \in Nat : PublicKey(k) \in ToNodePdus /\ PublicKey(k).type = "PUBLIC_KEY"
    /\ \A c \in Confirms : /\ Confirmation(c) \in ToNodePdus
                           /\ Confirmation(c).type = "CONFIRMATION"
    /\ \A s \in Secrets : /\ Data(s) \in ToNodePdus /\ Data(s).type = "DATA"
                          /\ Data(s).secret = s
<1>1. \A t \in {"RECORDS_GET", "RECORD_REQUEST", "INVITE", "RANDOM"} :
           Plain(t) \in ToNodePdus /\ Plain(t).type = t
    BY DEF ToNodePdus, Plain
<1>2. \A k, s \in BOOLEAN : Start(k, s) \in ToNodePdus /\ Start(k, s).type = "START"
    BY DEF ToNodePdus, Start
<1>3. \A k \in Nat : PublicKey(k) \in ToNodePdus /\ PublicKey(k).type = "PUBLIC_KEY"
    BY DEF ToNodePdus, PublicKey
<1>4. \A c \in Confirms : /\ Confirmation(c) \in ToNodePdus
                          /\ Confirmation(c).type = "CONFIRMATION"
    BY DEF ToNodePdus, Confirmation
<1>5. \A s \in Secrets : /\ Data(s) \in ToNodePdus /\ Data(s).type = "DATA"
                         /\ Data(s).secret = s
    BY DEF ToNodePdus, Data
<1> QED BY <1>1, <1>2, <1>3, <1>4, <1>5

\* The constants of the types.
LEMMA NoSecretFacts ==
    /\ NoSecret \in Secrets /\ NoConfirm \in Confirms
    /\ \A k \in Nat, d \in Devices \cup {NoDevice} : <<k, d>> \in Secrets
    BY DEF NoSecret, NoConfirm, Secrets, Confirms, Auths

\* Where a provisioned node may be.
Settled == {"UNPROVISION", "REC_REQ", "SUC"}

\* mesh_provision_para_reset keeps what is in flash.
LEMMA ParaResetFacts ==
    ASSUME NEW s \in NodeStates
    PROVE  /\ ParaReset(s) \in NodeStates
           /\ ParaReset(s).rcv = "UNPROVISION"
           /\ ParaReset(s).provisioned = s.provisioned
           /\ ParaReset(s).devKey = s.devKey
    BY NoSecretFacts DEF ParaReset, NodeStates, RcvStates

\* What a node does with a PDU: it answers with one PDU or none; once it is
\* provisioned, it stays so with the key it has; and it completes only with data
\* made with the key it takes.
NodeDoes(s, d, pdu, a) ==
    /\ a.node \in NodeStates
    /\ a.out = <<>> \/ \E x \in ToPhonePdus : a.out = <<x>>
    /\ (s.provisioned => s.rcv \in Settled) =>
         /\ s.provisioned => a.node.provisioned /\ a.node.devKey = s.devKey
         /\ a.node.provisioned => a.node.rcv \in Settled
    /\ \A x \in ToPhonePdus : a.out = <<x>> /\ x.type = "COMPLETE" =>
         pdu.type = "DATA" /\ a.node.provisioned /\ a.node.devKey = pdu.secret

\* dispatch_pb_gatt, state by state.
LEMMA DispatchFacts ==
    ASSUME NEW s \in NodeStates, NEW d \in Devices, NEW pdu \in ToNodePdus
    PROVE  NodeDoes(s, d, pdu, Dispatch(s, d, pdu))
<1> USE DEF Answer, Ignore
<1>1. NodeDoes(s, d, pdu, Ignore(s)) /\ NodeDoes(s, d, pdu, Ignore(ParaReset(s)))
    BY ParaResetFacts DEF NodeDoes, Settled
<1>2. NodeDoes(s, d, pdu, FailCmd(s))
    BY ParaResetFacts, NodeSends DEF NodeDoes, Settled, FailCmd
<1>3. NodeDoes(s, d, pdu, RcvInvite(s, d))
  <2>1. CASE s.provisioned
      BY <1>1, <2>1 DEF RcvInvite
  <2>2. CASE ~s.provisioned
    <3> DEFINE n == [ParaReset(s) EXCEPT !.rcv = "CAPA"]
    <3>1. n \in NodeStates /\ ~n.provisioned
        BY <2>2, ParaResetFacts DEF NodeStates, RcvStates
    <3>2. RcvInvite(s, d) = [node |-> n, out |-> <<Capabilities(d)>>]
        BY <2>2 DEF RcvInvite
    <3> HIDE DEF n
    <3> QED BY <2>2, <3>1, <3>2, NodeSends DEF NodeDoes
  <2> QED BY <2>1, <2>2
<1>4. CASE s.rcv = "UNPROVISION"
  <2>1. CASE d \in Certified /\ pdu.type = "RECORDS_GET"
    <3> DEFINE n == [s EXCEPT !.rcv = "REC_REQ"]
    <3>1. n \in NodeStates /\ n.provisioned = s.provisioned /\ n.devKey = s.devKey
          /\ n.rcv = "REC_REQ"
        BY DEF NodeStates, RcvStates
    <3>2. Dispatch(s, d, pdu) = [node |-> n, out |-> <<Plain("RECORDS_LIST")>>]
        BY <1>4, <2>1 DEF Dispatch, InUnprovision
    <3> HIDE DEF n
    <3> QED BY <3>1, <3>2, NodeSends DEF NodeDoes, Settled
  <2>2. CASE d \notin Certified /\ pdu.type = "INVITE"
      BY <1>3, <1>4, <2>2 DEF Dispatch, InUnprovision
  <2>3. CASE /\ ~(d \in Certified /\ pdu.type = "RECORDS_GET")
             /\ ~(d \notin Certified /\ pdu.type = "INVITE")
      BY <1>1, <1>4, <2>3 DEF Dispatch, InUnprovision
  <2> QED BY <2>1, <2>2, <2>3
<1>5. CASE s.rcv = "REC_REQ"
  <2>1. CASE pdu.type = "RECORD_REQUEST"
    <3>1. Dispatch(s, d, pdu) = [node |-> s, out |-> <<Plain("RECORD_RESPONSE")>>]
        BY <1>5, <2>1 DEF Dispatch, InRecReq
    <3> QED BY <1>5, <3>1, NodeSends DEF NodeDoes, Settled
  <2>2. CASE pdu.type = "INVITE"
      BY <1>3, <1>5, <2>2 DEF Dispatch, InRecReq
  <2>3. CASE pdu.type \notin {"RECORD_REQUEST", "INVITE"}
      BY <1>1, <1>5, <2>3 DEF Dispatch, InRecReq
  <2> QED BY <2>1, <2>2, <2>3
<1>6. CASE s.rcv = "CAPA"
  <2>1. CASE pdu.type = "START" /\ pdu.oobKey = (d \in OobKey) /\ pdu.static = (d \in StaticOob)
    <3> DEFINE n == [s EXCEPT !.rcv = "START"]
    <3>1. n \in NodeStates /\ n.provisioned = s.provisioned
        BY DEF NodeStates, RcvStates
    <3>2. Dispatch(s, d, pdu) = [node |-> n, out |-> <<>>]
        BY <1>6, <2>1 DEF Dispatch, InCapa
    <3> HIDE DEF n
    <3> QED BY <1>6, <3>1, <3>2 DEF NodeDoes, Settled
  <2>2. CASE ~(pdu.type = "START" /\ pdu.oobKey = (d \in OobKey)
               /\ pdu.static = (d \in StaticOob))
      BY <1>2, <1>6, <2>2 DEF Dispatch, InCapa
  <2> QED BY <2>1, <2>2
<1>7. CASE s.rcv = "START"
  <2>1. CASE pdu.type = "PUBLIC_KEY"
    <3> DEFINE n == [s EXCEPT !.rcv = "PUB_KEY", !.phoneKey = pdu.key]
    <3>1. n \in NodeStates /\ n.provisioned = s.provisioned
        BY <2>1, ToNodeFacts DEF NodeStates, RcvStates
    <3>2. Dispatch(s, d, pdu) = [node |-> n, out |-> IF d \in Certified THEN <<>>
                                                     ELSE <<PublicKey(d)>>]
        BY <1>7, <2>1 DEF Dispatch, InStart
    <3> HIDE DEF n
    <3> QED BY <1>7, <3>1, <3>2, NodeSends DEF NodeDoes, Settled
  <2>2. CASE pdu.type # "PUBLIC_KEY"
      BY <1>2, <1>7, <2>2 DEF Dispatch, InStart
  <2> QED BY <2>1, <2>2
<1>8. CASE s.rcv = "PUB_KEY"
  <2>1. CASE pdu.type = "CONFIRMATION"
    <3> DEFINE n == [s EXCEPT !.rcv = "CONFIRM", !.confirm = pdu.confirm]
    <3>1. n \in NodeStates /\ n.provisioned = s.provisioned
        BY <2>1, ToNodeFacts DEF NodeStates, RcvStates
    <3>2. Dispatch(s, d, pdu) = [node |-> n, out |-> <<Confirmation(DevConfirm(s, d))>>]
        BY <1>8, <2>1 DEF Dispatch, InPubKey
    <3>3. DevConfirm(s, d) \in Confirms
        BY NoSecretFacts DEF DevConfirm, Secret, Confirms, Auths, NodeStates
    <3> HIDE DEF n
    <3> QED BY <1>8, <3>1, <3>2, <3>3, NodeSends DEF NodeDoes, Settled
  <2>2. CASE pdu.type # "CONFIRMATION"
      BY <1>2, <1>8, <2>2 DEF Dispatch, InPubKey
  <2> QED BY <2>1, <2>2
<1>9. CASE s.rcv = "CONFIRM"
  <2>1. CASE pdu.type = "RANDOM" /\ s.confirm = DevConfirm(s, d)
    <3> DEFINE n == [s EXCEPT !.rcv = "RANDOM"]
    <3>1. n \in NodeStates /\ n.provisioned = s.provisioned
        BY DEF NodeStates, RcvStates
    <3>2. Dispatch(s, d, pdu) = [node |-> n, out |-> <<Plain("RANDOM")>>]
        BY <1>9, <2>1 DEF Dispatch, InConfirm
    <3> HIDE DEF n
    <3> QED BY <1>9, <3>1, <3>2, NodeSends DEF NodeDoes, Settled
  <2>2. CASE ~(pdu.type = "RANDOM" /\ s.confirm = DevConfirm(s, d))
      BY <1>2, <1>9, <2>2 DEF Dispatch, InConfirm
  <2> QED BY <2>1, <2>2
<1>10. CASE s.rcv = "RANDOM"
  <2>1. CASE pdu.type = "DATA" /\ pdu.secret = Secret(s, d)
    <3> DEFINE n == [s EXCEPT !.rcv = "SUC", !.provisioned = TRUE, !.devKey = Secret(s, d)]
    <3>1. n \in NodeStates /\ n.provisioned /\ n.devKey = pdu.secret /\ n.rcv = "SUC"
        BY <2>1, NoSecretFacts DEF NodeStates, RcvStates, Secret
    <3>2. Dispatch(s, d, pdu) = [node |-> n, out |-> <<Plain("COMPLETE")>>]
        BY <1>10, <2>1 DEF Dispatch, InRandom
    <3> HIDE DEF n
    <3> QED BY <1>10, <2>1, <3>1, <3>2, NodeSends DEF NodeDoes, Settled
  <2>2. CASE ~(pdu.type = "DATA" /\ pdu.secret = Secret(s, d))
      BY <1>2, <1>10, <2>2 DEF Dispatch, InRandom
  <2> QED BY <2>1, <2>2
<1>11. CASE s.rcv = "SUC"
    BY <1>1, <1>11 DEF Dispatch
<1> QED
    BY <1>4, <1>5, <1>6, <1>7, <1>8, <1>9, <1>10, <1>11 DEF NodeStates, RcvStates

-----------------------------------------------------------------------------
(* The controller.                                                          *)

\* The states of a provisioning that has not yet sent its data.
BeforeData == {"RECORDS_GET", "RECORD_REQUEST", "INVITE", "PUB_KEY_SENT", "CONFIRM_SENT",
               "RANDOM_SENT"}

\* The controller has a device while it runs, and asks for records there are.
Runs(c) ==
    /\ c.state # "IDLE" => c.device \in Devices
    /\ c.state = "RECORD_REQUEST" => c.recordIndex < Records

\* The controller is the same but for its state, what it has found out of the
\* device and what it checks.
SameRun(c, k) == k.n = c.n /\ k.device = c.device /\ k.timer = c.timer

\* clear
LEMMA ClearFacts ==
    ASSUME NEW c \in Controllers
    PROVE  /\ Clear(c) \in Controllers
           /\ Clear(c).state = "IDLE" /\ ~Clear(c).timer
           /\ Clear(c).n = c.n /\ Clear(c).device = c.device /\ Clear(c).devKey = c.devKey
           /\ Runs(Clear(c))
    BY DEF Clear, Controllers, States, Runs

\* begin: the controller runs for this device and attempt, and has no key yet.
LEMMA BeginFacts ==
    ASSUME NEW c \in Controllers, NEW d \in Devices, NEW n \in 0..MaxAttempts
    PROVE  LET r == Begin(c, d, n) IN
           /\ r.ctl \in Controllers /\ Runs(r.ctl)
           /\ r.ctl.state \in BeforeData /\ r.ctl.n = n /\ r.ctl.device = d /\ r.ctl.timer
           /\ \E x \in ToNodePdus : r.send = <<x>> /\ x.type # "DATA"
<1> DEFINE p == [c EXCEPT !.timer = TRUE]
           b == [p EXCEPT !.device = d, !.n = n, !.auth = AuthValue[d], !.devKey = NoSecret]
           x == [b EXCEPT !.state = "RECORDS_GET"]
           y == [b EXCEPT !.state = "INVITE"]
<1>1. p \in Controllers /\ p.timer = TRUE
    BY DEF Controllers
<1> HIDE DEF p
<1>2. AuthValue[d] \in {"right", "wrong", "null"}
    BY ProvisioningAssumption
<1>3. b \in Controllers /\ b.timer = TRUE /\ b.n = n /\ b.device = d
    BY <1>1, <1>2, NoSecretFacts DEF Controllers
<1> HIDE DEF b
<1>4. /\ x \in Controllers /\ x.timer = TRUE /\ x.n = n /\ x.device = d
      /\ x.state = "RECORDS_GET"
    BY <1>3 DEF Controllers, States
<1>5. /\ y \in Controllers /\ y.timer = TRUE /\ y.n = n /\ y.device = d
      /\ y.state = "INVITE"
    BY <1>3 DEF Controllers, States
<1>6. Begin(c, d, n) = IF d \in Certified
                       THEN [ctl |-> x, send |-> <<Plain("RECORDS_GET")>>, end |-> "no"]
                       ELSE [ctl |-> y, send |-> <<Plain("INVITE")>>, end |-> "no"]
    BY DEF Begin, Posted, Invited, Goes, b, p
<1> HIDE DEF x, y
<1>7. CASE d \in Certified
    BY <1>4, <1>6, <1>7, PhoneSends DEF BeforeData, Runs
<1>8. CASE d \notin Certified
    BY <1>5, <1>6, <1>8, PhoneSends DEF BeforeData, Runs
<1> QED BY <1>7, <1>8

\* What the controller does with a PDU, in the state it is in: it sends data
\* once, made with the key it then takes, and succeeds on COMPLETE alone.
Handles(c, pdu, r) ==
    /\ r.ctl \in Controllers /\ SameRun(c, r.ctl)
    /\ r.end = "no" => Runs(r.ctl)
    /\ r.send \in Seq(ToNodePdus)
    /\ r.end \in {"no", "failed", "success"}
    /\ r.ctl.state = "IDLE" <=> c.state = "IDLE"
    /\ r.end # "no" => c.state # "IDLE"
    /\ r.ctl.state \in BeforeData => c.state \in BeforeData
    /\ \/ /\ r.ctl.devKey = c.devKey
          /\ \A i \in 1..Len(r.send) : r.send[i].type # "DATA"
       \/ /\ c.state \in BeforeData /\ r.ctl.state \notin BeforeData
          /\ \A i \in 1..Len(r.send) : r.send[i].secret = r.ctl.devKey
    /\ r.end = "success" => pdu.type = "COMPLETE" /\ r.ctl = c

\* Nothing is sent, or one PDU or two or three that are not data.
LEMMA SendFacts ==
    /\ <<>> \in Seq(ToNodePdus) /\ Len(<<>>) = 0
    /\ \A x \in ToNodePdus :
         /\ <<x>> \in Seq(ToNodePdus)
         /\ \A i \in 1..Len(<<x>>) : <<x>>[i] = x
    /\ \A x, y \in ToNodePdus :
         /\ <<x, y>> \in Seq(ToNodePdus)
         /\ \A i \in 1..Len(<<x, y>>) : <<x, y>>[i] \in {x, y}
         /\ \A z \in ToNodePdus :
              /\ Append(<<x, y>>, z) \in Seq(ToNodePdus)
              /\ \A i \in 1..Len(Append(<<x, y>>, z)) : Append(<<x, y>>, z)[i] \in {x, y, z}
    OBVIOUS

\* A handler that goes on and sends no data.
LEMMA NoData ==
    ASSUME NEW c \in Controllers, Runs(c), c.state \in BeforeData, NEW pdu,
           NEW k \in Controllers, SameRun(c, k), Runs(k), k.state \in BeforeData,
           k.devKey = c.devKey,
           NEW send \in Seq(ToNodePdus), \A i \in 1..Len(send) : send[i].type # "DATA"
    PROVE  Handles(c, pdu, Goes(k, send))
    BY DEF Handles, Goes, BeforeData

\* A handler that fails.
LEMMA FailsFacts ==
    ASSUME NEW c \in Controllers, c.state # "IDLE", NEW pdu,
           NEW k \in Controllers, SameRun(c, k), k.state # "IDLE",
           k.state \in BeforeData => c.state \in BeforeData,
           k.devKey = c.devKey
    PROVE  Handles(c, pdu, Fails(k, <<>>))
    BY SendFacts DEF Handles, Fails

\* An ignored PDU.
LEMMA IgnoredFacts ==
    ASSUME NEW c \in Controllers, Runs(c), NEW pdu
    PROVE  Handles(c, pdu, Ignored(c))
    BY SendFacts DEF Handles, Ignored, Goes, SameRun

\* getNextRecord, with the certificate checked after the last one.
LEMMA GetNextRecordFacts ==
    ASSUME NEW c \in Controllers, Runs(c), c.state \in BeforeData, NEW pdu,
           NEW k \in Controllers, SameRun(c, k), k.state \in BeforeData,
           k.devKey = c.devKey, k.device \in Devices
    PROVE  Handles(c, pdu, GetNextRecord(k))
<1>1. CASE k.recordIndex # Records
  <2> DEFINE x == [k EXCEPT !.state = "RECORD_REQUEST", !.recordKey = NoDevice]
  <2>1. /\ x \in Controllers /\ SameRun(k, x) /\ x.state = "RECORD_REQUEST"
        /\ x.devKey = k.devKey /\ x.recordIndex = k.recordIndex
      BY DEF Controllers, States, SameRun
  <2>2. k.recordIndex < Records
      BY <1>1, ProvisioningAssumption DEF Controllers
  <2>3. GetNextRecord(k) = Goes(x, <<Plain("RECORD_REQUEST")>>)
      BY <1>1 DEF GetNextRecord
  <2> HIDE DEF x
  <2>4. x.state \in BeforeData /\ Runs(x) /\ SameRun(c, x) /\ x.devKey = c.devKey
      BY <2>1, <2>2 DEF Runs, SameRun, BeforeData
  <2>5. /\ <<Plain("RECORD_REQUEST")>> \in Seq(ToNodePdus)
        /\ \A i \in 1..Len(<<Plain("RECORD_REQUEST")>>) :
               <<Plain("RECORD_REQUEST")>>[i].type # "DATA"
      BY PhoneSends, SendFacts
  <2> QED BY <2>1, <2>3, <2>4, <2>5, NoData
<1>2. CASE k.recordIndex = Records /\ k.device \in BadCert
  <2>1. GetNextRecord(k) = Fails(k, <<>>)
      BY <1>2 DEF GetNextRecord, OnAllRecordsComplete
  <2>2. k.state # "IDLE" /\ c.state # "IDLE"
      BY DEF BeforeData
  <2> QED BY <2>1, <2>2, FailsFacts
<1>3. CASE k.recordIndex = Records /\ k.device \notin BadCert
  <2> DEFINE a == [k EXCEPT !.recordKey = k.device,
                            !.auth = IF k.device \in StaticOob THEN "right" ELSE "null"]
             x == [a EXCEPT !.state = "INVITE"]
  <2>1. a \in Controllers /\ SameRun(k, a) /\ a.devKey = k.devKey
      BY DEF Controllers, SameRun
  <2> HIDE DEF a
  <2>2. x \in Controllers /\ SameRun(a, x) /\ x.devKey = a.devKey /\ x.state = "INVITE"
      BY <2>1 DEF Controllers, States, SameRun
  <2>3. GetNextRecord(k) = Goes(x, <<Plain("INVITE")>>)
      BY <1>3 DEF GetNextRecord, OnAllRecordsComplete, Invited, a
  <2> HIDE DEF x
  <2>4. x.state \in BeforeData /\ Runs(x) /\ SameRun(c, x) /\ x.devKey = c.devKey
      BY <2>1, <2>2 DEF Runs, SameRun, BeforeData
  <2>5. /\ <<Plain("INVITE")>> \in Seq(ToNodePdus)
        /\ \A i \in 1..Len(<<Plain("INVITE")>>) : <<Plain("INVITE")>>[i].type # "DATA"
      BY PhoneSends, SendFacts
  <2> QED BY <2>2, <2>3, <2>4, <2>5, NoData
<1> QED BY <1>1, <1>2, <1>3

\* onRecordListReceived
LEMMA OnRecordListFacts ==
    ASSUME NEW c \in Controllers, Runs(c), NEW pdu
    PROVE  Handles(c, pdu, OnRecordListReceived(c))
<1>1. CASE c.state # "RECORDS_GET"
    BY <1>1, IgnoredFacts DEF OnRecordListReceived
<1>2. CASE c.state = "RECORDS_GET"
  <2> DEFINE k == [c EXCEPT !.recordIndex = 0]
  <2>1. /\ k \in Controllers /\ SameRun(c, k) /\ k.state = c.state /\ k.devKey = c.devKey
        /\ k.device \in Devices
      BY <1>2, ProvisioningAssumption DEF Controllers, SameRun, Runs
  <2>2. OnRecordListReceived(c) = GetNextRecord(k)
      BY <1>2 DEF OnRecordListReceived
  <2> HIDE DEF k
  <2> QED BY <1>2, <2>1, <2>2, GetNextRecordFacts DEF BeforeData
<1> QED BY <1>1, <1>2

\* onRecordResponse
LEMMA OnRecordResponseFacts ==
    ASSUME NEW c \in Controllers, Runs(c), NEW pdu
    PROVE  Handles(c, pdu, OnRecordResponse(c))
<1>1. CASE c.state # "RECORD_REQUEST"
    BY <1>1, IgnoredFacts DEF OnRecordResponse
<1>2. CASE c.state = "RECORD_REQUEST"
  <2> DEFINE k == [c EXCEPT !.recordIndex = @ + 1]
  <2>1. c.recordIndex + 1 \in 0..Records
      BY <1>2, ProvisioningAssumption DEF Controllers, Runs
  <2>2. /\ k \in Controllers /\ SameRun(c, k) /\ k.state = c.state /\ k.devKey = c.devKey
        /\ k.device \in Devices
      BY <1>2, <2>1 DEF Controllers, SameRun, Runs
  <2>3. OnRecordResponse(c) = GetNextRecord(k)
      BY <1>2 DEF OnRecordResponse
  <2> HIDE DEF k
  <2> QED BY <1>2, <2>2, <2>3, GetNextRecordFacts DEF BeforeData
<1> QED BY <1>1, <1>2

\* The secret and the confirmation of the provisioner.
LEMMA SecretFacts ==
    ASSUME NEW c \in Controllers
    PROVE  PhoneSecret(c) \in Secrets /\ PhoneConfirm(c) \in Confirms /\ c.n \in Nat
<1>1. c.n \in Nat /\ c.key \in Devices \cup {NoDevice} /\ c.auth \in {"right", "wrong", "null"}
    BY ProvisioningAssumption DEF Controllers
<1>2. UsedAuth(c) \in {"right", "wrong", "none"}
    BY <1>1 DEF UsedAuth
<1>3. PhoneSecret(c) \in Secrets
    BY <1>1, NoSecretFacts DEF PhoneSecret
<1> QED BY <1>1, <1>2, <1>3 DEF PhoneConfirm, Confirms, Auths

\* sendConfirm, with the device's key.
LEMMA WithKeyFacts ==
    ASSUME NEW c \in Controllers, NEW k \in Devices \cup {NoDevice}
    PROVE  /\ WithKey(c, k) \in Controllers /\ SameRun(c, WithKey(c, k))
           /\ WithKey(c, k).state = "CONFIRM_SENT" /\ WithKey(c, k).devKey = c.devKey
           /\ Confirmation(PhoneConfirm(WithKey(c, k))) \in ToNodePdus
           /\ Confirmation(PhoneConfirm(WithKey(c, k))).type # "DATA"
<1>1. /\ WithKey(c, k) \in Controllers /\ SameRun(c, WithKey(c, k))
      /\ WithKey(c, k).state = "CONFIRM_SENT" /\ WithKey(c, k).devKey = c.devKey
    BY DEF WithKey, Controllers, States, SameRun
<1>2. PhoneConfirm(WithKey(c, k)) \in Confirms
    BY <1>1, SecretFacts
<1>3. \A x \in Confirms : Confirmation(x) \in ToNodePdus /\ Confirmation(x).type # "DATA"
    BY PhoneSends
<1> QED BY <1>1, <1>2, <1>3

\* onPubKeyReceived
LEMMA OnPubKeyFacts ==
    ASSUME NEW c \in Controllers, Runs(c), NEW pdu, NEW k \in Devices
    PROVE  Handles(c, pdu, OnPubKeyReceived(c, k))
<1>1. CASE c.state # "PUB_KEY_SENT"
    BY <1>1, IgnoredFacts DEF OnPubKeyReceived
<1>2. CASE c.state = "PUB_KEY_SENT"
  <2> DEFINE x == WithKey(c, k)
             y == Confirmation(PhoneConfirm(x))
  <2>1. /\ x \in Controllers /\ SameRun(c, x) /\ x.state = "CONFIRM_SENT"
        /\ x.devKey = c.devKey /\ y \in ToNodePdus /\ y.type # "DATA"
      BY WithKeyFacts
  <2>2. OnPubKeyReceived(c, k) = Goes(x, <<y>>)
      BY <1>2 DEF OnPubKeyReceived
  <2> HIDE DEF x, y
  <2>3. Runs(x) /\ x.state \in BeforeData /\ c.state \in BeforeData
      BY <1>2, <2>1 DEF Runs, SameRun, BeforeData
  <2>4. <<y>> \in Seq(ToNodePdus) /\ \A i \in 1..Len(<<y>>) : <<y>>[i].type # "DATA"
      BY <2>1, SendFacts
  <2> QED BY <2>1, <2>2, <2>3, <2>4, NoData
<1> QED BY <1>1, <1>2

\* onCapabilityReceived
LEMMA OnCapabilityFacts ==
    ASSUME NEW c0 \in Controllers, Runs(c0), NEW pdu \in ToPhonePdus, pdu.type = "CAPABILITIES"
    PROVE  Handles(c0, pdu, OnCapabilityReceived(c0, pdu))
<1> DEFINE c   == [c0 EXCEPT !.static = pdu.static]
           use == pdu.static /\ c.auth # "null"
           oob == pdu.oobKey /\ c.recordKey # NoDevice
           st  == Start(oob, use)
           pk  == PublicKey(c.n)
           k   == WithKey(c, c.recordKey)
           cf  == Confirmation(PhoneConfirm(k))
           p   == [c EXCEPT !.state = "PUB_KEY_SENT"]
<1>1. pdu.static \in BOOLEAN /\ pdu.oobKey \in BOOLEAN
    BY ToPhoneFacts
<1>2. /\ c \in Controllers /\ SameRun(c0, c) /\ c.state = c0.state /\ c.devKey = c0.devKey
      /\ c.recordKey \in Devices \cup {NoDevice}
    BY <1>1 DEF Controllers, SameRun
<1>3. CASE c0.state # "INVITE"
    BY <1>3, IgnoredFacts DEF OnCapabilityReceived
<1>4. CASE c0.state = "INVITE" /\ pdu.static /\ ~use /\ c.device \notin AutoUseNoOOB
  <2>1. OnCapabilityReceived(c0, pdu) = Fails(c, <<>>)
      BY <1>4 DEF OnCapabilityReceived
  <2> HIDE DEF c
  <2> QED BY <1>2, <1>4, <2>1, FailsFacts
<1>5. CASE c0.state = "INVITE" /\ ~(pdu.static /\ ~use /\ c.device \notin AutoUseNoOOB)
  <2>1. OnCapabilityReceived(c0, pdu) =
            IF oob THEN Goes(k, Append(<<st, pk>>, cf)) ELSE Goes(p, <<st, pk>>)
      BY <1>5 DEF OnCapabilityReceived
  <2>2. oob \in BOOLEAN /\ use \in BOOLEAN
      BY <1>1
  <2> HIDE DEF c, oob, use
  <2>3. st \in ToNodePdus /\ st.type # "DATA" /\ pk \in ToNodePdus /\ pk.type # "DATA"
    <3>1. c.n \in Nat
        BY <1>2, SecretFacts
    <3> QED BY <2>2, <3>1, PhoneSends
  <2>4. /\ k \in Controllers /\ SameRun(c, k) /\ k.state = "CONFIRM_SENT"
        /\ k.devKey = c.devKey /\ cf \in ToNodePdus /\ cf.type # "DATA"
      BY <1>2, WithKeyFacts
  <2>5. p \in Controllers /\ SameRun(c, p) /\ p.state = "PUB_KEY_SENT" /\ p.devKey = c.devKey
      BY <1>2 DEF Controllers, States, SameRun
  <2> HIDE DEF st, pk, k, cf, p
  <2>6. /\ SameRun(c0, k) /\ Runs(k) /\ k.state \in BeforeData
        /\ SameRun(c0, p) /\ Runs(p) /\ p.state \in BeforeData
        /\ c0.state \in BeforeData
      BY <1>2, <1>5, <2>4, <2>5 DEF SameRun, Runs, BeforeData
  <2>7. /\ <<st, pk>> \in Seq(ToNodePdus)
        /\ \A i \in 1..Len(<<st, pk>>) : <<st, pk>>[i].type # "DATA"
        /\ Append(<<st, pk>>, cf) \in Seq(ToNodePdus)
        /\ \A i \in 1..Len(Append(<<st, pk>>, cf)) : Append(<<st, pk>>, cf)[i].type # "DATA"
    <3>1. /\ <<st, pk>> \in Seq(ToNodePdus)
          /\ \A i \in 1..Len(<<st, pk>>) : <<st, pk>>[i] \in {st, pk}
          /\ Append(<<st, pk>>, cf) \in Seq(ToNodePdus)
          /\ \A i \in 1..Len(Append(<<st, pk>>, cf)) : Append(<<st, pk>>, cf)[i] \in {st, pk, cf}
        BY <2>3, <2>4, SendFacts
    <3> QED BY <2>3, <2>4, <3>1
  <2>8. Handles(c0, pdu, Goes(k, Append(<<st, pk>>, cf)))
      BY <1>2, <2>4, <2>6, <2>7, NoData
  <2>9. Handles(c0, pdu, Goes(p, <<st, pk>>))
      BY <1>2, <2>5, <2>6, <2>7, NoData
  <2> QED BY <2>1, <2>8, <2>9
<1> QED BY <1>3, <1>4, <1>5

\* onConfirmReceived
LEMMA OnConfirmFacts ==
    ASSUME NEW c \in Controllers, Runs(c), NEW pdu, NEW confirm \in Confirms
    PROVE  Handles(c, pdu, OnConfirmReceived(c, confirm))
<1>1. CASE c.state # "CONFIRM_SENT"
    BY <1>1, IgnoredFacts DEF OnConfirmReceived
<1>2. CASE c.state = "CONFIRM_SENT"
  <2> DEFINE x == [c EXCEPT !.state = "RANDOM_SENT", !.peerConfirm = confirm]
  <2>1. x \in Controllers /\ SameRun(c, x) /\ x.state = "RANDOM_SENT" /\ x.devKey = c.devKey
      BY DEF Controllers, States, SameRun
  <2>2. OnConfirmReceived(c, confirm) = Goes(x, <<Plain("RANDOM")>>)
      BY <1>2 DEF OnConfirmReceived
  <2> HIDE DEF x
  <2>3. Runs(x) /\ x.state \in BeforeData /\ c.state \in BeforeData
      BY <1>2, <2>1 DEF Runs, SameRun, BeforeData
  <2>4. /\ <<Plain("RANDOM")>> \in Seq(ToNodePdus)
        /\ \A i \in 1..Len(<<Plain("RANDOM")>>) : <<Plain("RANDOM")>>[i].type # "DATA"
      BY PhoneSends, SendFacts
  <2> QED BY <2>1, <2>2, <2>3, <2>4, NoData
<1> QED BY <1>1, <1>2

\* onRandomReceived: the only data that is sent.
LEMMA OnRandomFacts ==
    ASSUME NEW c \in Controllers, Runs(c), NEW pdu
    PROVE  Handles(c, pdu, OnRandomReceived(c))
<1>1. CASE c.state # "RANDOM_SENT"
    BY <1>1, IgnoredFacts DEF OnRandomReceived
<1>2. CASE c.state = "RANDOM_SENT" /\ c.peerConfirm # PhoneConfirm(c)
    BY <1>2, FailsFacts DEF OnRandomReceived, SameRun
<1>3. CASE c.state = "RANDOM_SENT" /\ c.peerConfirm = PhoneConfirm(c)
  <2> DEFINE s == PhoneSecret(c)
             x == [c EXCEPT !.state = "DATA", !.devKey = s]
  <2>1. s \in Secrets
      BY SecretFacts
  <2>2. OnRandomReceived(c) = Goes(x, <<Data(s)>>)
      BY <1>3 DEF OnRandomReceived
  <2> HIDE DEF s
  <2>3. x \in Controllers /\ SameRun(c, x) /\ x.state = "DATA" /\ x.devKey = s
      BY <2>1 DEF Controllers, States, SameRun
  <2> HIDE DEF x
  <2>4. <<Data(s)>> \in Seq(ToNodePdus) /\ \A i \in 1..Len(<<Data(s)>>) : <<Data(s)>>[i].secret = s
    <3>1. Data(s) \in ToNodePdus /\ Data(s).secret = s
        BY <2>1, PhoneSends
    <3> QED BY <3>1, SendFacts
  <2>5. Runs(x)
      BY <1>3, <2>3 DEF Runs, SameRun
  <2> QED BY <1>3, <2>2, <2>3, <2>4, <2>5 DEF Handles, Goes, BeforeData
<1> QED BY <1>1, <1>2, <1>3

\* pushNotification
LEMMA PushNotificationFacts ==
    ASSUME NEW c \in Controllers, Runs(c), NEW pdu \in ToPhonePdus
    PROVE  Handles(c, pdu, PushNotification(c, pdu))
<1>1. CASE c.state = "IDLE"
    BY <1>1, IgnoredFacts DEF PushNotification
<1>2. CASE c.state # "IDLE"
  <2>1. CASE pdu.type = "RECORDS_LIST"
      BY <1>2, <2>1, OnRecordListFacts DEF PushNotification
  <2>2. CASE pdu.type = "RECORD_RESPONSE"
      BY <1>2, <2>2, OnRecordResponseFacts DEF PushNotification
  <2>3. CASE pdu.type = "CAPABILITIES"
      BY <1>2, <2>3, OnCapabilityFacts DEF PushNotification
  <2>4. CASE pdu.type = "PUBLIC_KEY"
    <3>1. pdu.key \in Devices
        BY <2>4, ToPhoneFacts
    <3> QED BY <1>2, <2>4, <3>1, OnPubKeyFacts DEF PushNotification
  <2>5. CASE pdu.type = "CONFIRMATION"
    <3>1. pdu.confirm \in Confirms
        BY <2>5, ToPhoneFacts
    <3> QED BY <1>2, <2>5, <3>1, OnConfirmFacts DEF PushNotification
  <2>6. CASE pdu.type = "RANDOM"
      BY <1>2, <2>6, OnRandomFacts DEF PushNotification
  <2>7. CASE pdu.type = "COMPLETE"
    <3>1. PushNotification(c, pdu) = [ctl |-> c, send |-> <<>>, end |-> "success"]
        BY <1>2, <2>7 DEF PushNotification
    <3> QED BY <1>2, <2>7, <3>1, SendFacts DEF Handles, SameRun
  <2>8. CASE pdu.type = "FAILED"
    <3>1. PushNotification(c, pdu) = Fails(c, <<>>)
        BY <1>2, <2>8 DEF PushNotification
    <3> QED BY <1>2, <3>1, FailsFacts DEF SameRun
  <2> QED BY <2>1, <2>2, <2>3, <2>4, <2>5, <2>6, <2>7, <2>8, ToPhoneFacts
<1> QED BY <1>1, <1>2

-----------------------------------------------------------------------------
(* The inductive invariant.                                                 *)

\* A provisioned node takes no PDU that leads to another provisioning.
NodesSettled == \A d \in Devices : node[d].provisioned => node[d].rcv \in Settled

\* The link, the task that is posted and the mode: PDUs are on the link only once
\* its services were found and the task that begins the provisioning has run, and
\* while a provisioning is made, a link that is up is that to its target.
LinkInv ==
    /\ link.state # "IDLE" => link.device \in Devices
    /\ link.services => Joined
    /\ task \in {"init", "success"} => link.services
    /\ ~link.services \/ task \in {"init", "success"} => toNode = <<>> /\ toPhone = <<>>
    /\ mode = "PROVISION" =>
         /\ target \in Devices
         /\ attempt # 0
         /\ connectRetry < MAX_CONNECT_RETRY
         /\ link.state \in {"CONNECTING", "CONNECTED"} => link.device = target
         /\ task = "disconnection" => link.state = "IDLE"

\* PDUs on the link are those of the provisioning the controller began last, and
\* of its data there is one: the node that has completed with it has its key.
PduInv ==
    /\ toNode # <<>> \/ toPhone # <<>> => ctl.device = link.device
    /\ \A i \in 1..Len(toNode) : toNode[i].type = "DATA" =>
           toNode[i].secret = ctl.devKey /\ ctl.state \notin BeforeData
    /\ \A i \in 1..Len(toPhone) : toPhone[i].type = "COMPLETE" =>
           /\ node[link.device].provisioned /\ node[link.device].devKey = ctl.devKey
           /\ ctl.state \notin BeforeData

\* The controller runs for the attempt being made, but while the timeout task is
\* under way; and its timeout is posted only while it runs.
AttemptInv ==
    /\ ~timerTask /\ ctl.state # "IDLE" => mode = "PROVISION" /\ ctl.n = attempt
    /\ mode = "PROVISION" /\ isActionStarted => ctl.n = attempt
    /\ ctl.timer => ctl.state # "IDLE" /\ ~timerTask

\* The attempt being made has no outcome yet, nor those to come; the one that the
\* timeout task will report has none, or one that came while it was under way.
OutcomeInv ==
    /\ \A n \in Attempts : n > attempt => outcomes[n] = <<>>
    /\ mode = "PROVISION" => outcomes[attempt] = <<>>
    /\ timerTask => /\ ctl.n \in Attempts /\ ctl.n <= attempt
                    /\ \/ outcomes[ctl.n] = <<>>
                       \/ /\ ctl.state = "IDLE"
                          /\ Len(outcomes[ctl.n]) = 1 /\ outcomes[ctl.n][1].late

IInv ==
    /\ TypeOK /\ NodesSettled /\ LinkInv /\ Runs(ctl) /\ PduInv /\ AttemptInv /\ OutcomeInv
    /\ KeysAgree /\ OutcomeOnce

\* Nothing has been tried yet.
LEMMA InitInv == Init => IInv
<1> SUFFICES ASSUME Init PROVE IInv
    OBVIOUS
<1> USE DEF Init
<1>1. link \in Links /\ link.state = "IDLE" /\ ~link.services
    BY DEF Links, LinkStates
<1>2. /\ ctl \in Controllers /\ ctl.state = "IDLE" /\ ~ctl.timer
    BY NoSecretFacts, ProvisioningAssumption DEF Controllers, States
<1>3. NewNode \in NodeStates /\ ~NewNode.provisioned
    BY NoSecretFacts DEF NewNode, NodeStates, RcvStates
<1>4. toNode = <<>> /\ toPhone = <<>> /\ Len(toNode) = 0 /\ Len(toPhone) = 0
    OBVIOUS
<1>5. TypeOK
  <2>1. /\ mode \in Modes /\ task \in Tasks /\ connectRetry \in -1..MAX_CONNECT_RETRY
        /\ attempt \in 0..MaxAttempts
      BY ProvisioningAssumption DEF Modes, Tasks, MAX_CONNECT_RETRY
  <2>2. /\ node \in [Devices -> NodeStates] /\ saved \in [Devices -> Secrets]
        /\ outcomes \in [Attempts -> Seq([what : Outcomes, late : BOOLEAN])]
      BY <1>3, NoSecretFacts
  <2>3. toNode \in Seq(ToNodePdus) /\ toPhone \in Seq(ToPhonePdus) /\ abandoned \subseteq Attempts
      OBVIOUS
  <2> QED BY <1>1, <1>2, <2>1, <2>2, <2>3 DEF TypeOK
<1>6. NodesSettled
    BY <1>3 DEF NodesSettled
<1>7. LinkInv /\ PduInv
    BY <1>1, <1>4 DEF LinkInv, PduInv
<1>8. Runs(ctl) /\ AttemptInv
    BY <1>2 DEF Runs, AttemptInv
<1>9. OutcomeInv
    BY DEF OutcomeInv
<1>10. KeysAgree
    BY DEF KeysAgree
<1>11. OutcomeOnce
  <2>1. \A n \in Attempts : outcomes[n] = <<>> /\ Len(outcomes[n]) = 0
      OBVIOUS
  <2> QED BY <2>1 DEF OutcomeOnce
<1> QED BY <1>5, <1>6, <1>7, <1>8, <1>9, <1>10, <1>11 DEF IInv

\* GattConnection.disconnect
LEMMA DisconnectedLinkFacts ==
    ASSUME TypeOK
    PROVE  /\ DisconnectedLink \in Links
           /\ DisconnectedLink.device = link.device
           /\ DisconnectedLink.services = link.services
           /\ DisconnectedLink.state \notin {"CONNECTING", "CONNECTED"}
           /\ DisconnectedLink.state # "IDLE" => link.state \in {"CONNECTED", "DISCONNECTING"}
           /\ link.state \in {"CONNECTED", "DISCONNECTING"} =>
                  DisconnectedLink.state = "DISCONNECTING"
           /\ link.state = "IDLE" => DisconnectedLink.state = "IDLE"
<1>1. link \in Links
    BY DEF TypeOK
<1>2. CASE link.state = "CONNECTED"
    BY <1>1, <1>2 DEF DisconnectedLink, Links, LinkStates
<1>3. CASE link.state = "CONNECTING"
    BY <1>1, <1>3 DEF DisconnectedLink, Links, LinkStates
<1>4. CASE link.state \notin {"CONNECTED", "CONNECTING"}
  <2>1. DisconnectedLink = link
      BY <1>4 DEF DisconnectedLink
  <2> QED BY <1>1, <1>4, <2>1 DEF Links, LinkStates
<1> QED BY <1>2, <1>3, <1>4

-----------------------------------------------------------------------------
(* The nodes keep what they have.                                           *)

NodesKeep ==
    /\ node' \in [Devices -> NodeStates]
    /\ NodesSettled'
    /\ \A d \in Devices :
          node[d].provisioned => node'[d].provisioned /\ node'[d].devKey = node[d].devKey

\* The node of the link forgets an unfinished provisioning.
LEMMA ResetKeeps ==
    ASSUME TypeOK, NodesSettled, link.device \in Devices,
           node' = [node EXCEPT ![link.device] = ParaReset(@)]
    PROVE  NodesKeep
<1>1. node \in [Devices -> NodeStates]
    BY DEF TypeOK
<1>2. \A d \in Devices : node'[d] = IF d = link.device THEN ParaReset(node[d]) ELSE node[d]
    BY <1>1
<1>3. node[link.device] \in NodeStates
    BY <1>1
<1> DEFINE p == ParaReset(node[link.device])
<1>4. /\ p \in NodeStates /\ p.rcv \in Settled
      /\ p.provisioned = node[link.device].provisioned /\ p.devKey = node[link.device].devKey
    BY <1>3, ParaResetFacts DEF Settled
<1>5. node' \in [Devices -> NodeStates]
    BY <1>1, <1>4
<1> HIDE DEF p
<1> QED BY <1>2, <1>4, <1>5 DEF NodesKeep, NodesSettled, p

\* Whatever happens, a node that is provisioned keeps its device key.
LEMMA NodeStep ==
    ASSUME IInv, [Next]_vars
    PROVE  NodesKeep
<1> USE DEF IInv
<1>1. CASE Connected
  <2>1. link.device \in Devices
      BY <1>1 DEF Connected, LinkInv
  <2> QED BY <1>1, <2>1, ResetKeeps DEF Connected
<1>2. CASE Disconnected
  <2>1. CASE Joined
    <3>1. link.device \in Devices
        BY <1>2 DEF Disconnected, LinkInv
    <3> QED BY <1>2, <2>1, <3>1, ResetKeeps DEF Disconnected
  <2>2. CASE ~Joined
      BY <1>2, <2>2 DEF Disconnected, NodesKeep, NodesSettled, TypeOK
  <2> QED BY <2>1, <2>2
<1>3. CASE NodeTimeout
  <2>1. link.device \in Devices
      BY <1>3 DEF NodeTimeout, Joined, LinkInv
  <2> QED BY <1>3, <2>1, ResetKeeps DEF NodeTimeout
<1>4. CASE NodeReceives
  <2> DEFINE d == link.device
             a == Dispatch(node[d], d, Head(toNode))
  <2>1. d \in Devices
      BY <1>4 DEF NodeReceives, Joined, LinkInv
  <2>2. Head(toNode) \in ToNodePdus /\ node[d] \in NodeStates
      BY <1>4, <2>1 DEF NodeReceives, TypeOK
  <2>3. NodeDoes(node[d], d, Head(toNode), a)
      BY <2>1, <2>2, DispatchFacts
  <2>4. node' = [node EXCEPT ![d] = a.node]
      BY <1>4 DEF NodeReceives
  <2> HIDE DEF a
  <2>5. node \in [Devices -> NodeStates]
      BY DEF TypeOK
  <2>6. /\ a.node \in NodeStates
        /\ node[d].provisioned => a.node.provisioned /\ a.node.devKey = node[d].devKey
        /\ a.node.provisioned => a.node.rcv \in Settled
      BY <2>1, <2>3 DEF NodeDoes, NodesSettled
  <2>7. \A e \in Devices : node'[e] = IF e = d THEN a.node ELSE node[e]
      BY <2>4, <2>5
  <2>8. node' \in [Devices -> NodeStates]
      BY <2>4, <2>5, <2>6
  <2> HIDE DEF d
  <2> QED BY <2>6, <2>7, <2>8 DEF NodesKeep, NodesSettled
<1>5. CASE \/ AppCall \/ ServicesDiscovered \/ DiscoveryFails
           \/ RunInit \/ RunSuccess \/ RunScan \/ RunInterrupt \/ RunConnectFail \/ RunReconnect
           \/ \E d \in Devices : ScanFound(d)
           \/ ScanTimeout \/ TimerFires \/ TimerReports \/ PhoneReceives
           \/ UNCHANGED vars
  <2>1. node' = node
      BY <1>5
      DEF AppCall, StartProvisioning, AutoConnect, AppIdle, AppDisconnect, ServicesDiscovered,
          DiscoveryFails, RunInit, RunSuccess, RunScan, RunInterrupt, RunConnectFail, RunReconnect,
          ScanFound, ScanTimeout, TimerFires, TimerReports, PhoneReceives, vars
  <2> QED BY <2>1 DEF NodesKeep, NodesSettled, TypeOK
<1> QED BY <1>1, <1>2, <1>3, <1>4, <1>5 DEF Next

-----------------------------------------------------------------------------
(* Types.                                                                   *)

\* The elements of a sequence that loses its head, or gets others.
LEMMA SequenceFacts ==
    ASSUME NEW S, NEW q \in Seq(S)
    PROVE  /\ q # <<>> => /\ Head(q) \in S /\ Head(q) = q[1] /\ 1 \in 1..Len(q)
                          /\ Tail(q) \in Seq(S)
                          /\ \A i \in 1..Len(Tail(q)) : i + 1 \in 1..Len(q)
                                                        /\ Tail(q)[i] = q[i + 1]
           /\ \A e \in Seq(S) :
                /\ q \o e \in Seq(S)
                /\ \A i \in 1..Len(q \o e) :
                     \/ i \in 1..Len(q) /\ (q \o e)[i] = q[i]
                     \/ i - Len(q) \in 1..Len(e) /\ (q \o e)[i] = e[i - Len(q)]
           /\ \A x \in S : /\ <<x>> \in Seq(S) /\ Append(q, x) \in Seq(S)
                           /\ Len(Append(q, x)) = Len(q) + 1
                           /\ Append(q, x)[Len(q) + 1] = x
                           /\ \A i \in 1..Len(q) : Append(q, x)[i] = q[i]
           /\ Len(q) \in Nat
           /\ q = <<>> <=> Len(q) = 0
<1>1. /\ q # <<>> => /\ Head(q) \in S /\ Head(q) = q[1] /\ 1 \in 1..Len(q)
                     /\ Tail(q) \in Seq(S)
                     /\ \A i \in 1..Len(Tail(q)) : i + 1 \in 1..Len(q) /\ Tail(q)[i] = q[i + 1]
    OBVIOUS
<1>2. \A e \in Seq(S) :
         /\ q \o e \in Seq(S)
         /\ \A i \in 1..Len(q \o e) :
              \/ i \in 1..Len(q) /\ (q \o e)[i] = q[i]
              \/ i - Len(q) \in 1..Len(e) /\ (q \o e)[i] = e[i - Len(q)]
    OBVIOUS
<1>3. \A x \in S : /\ <<x>> \in Seq(S) /\ Append(q, x) \in Seq(S)
                   /\ Len(Append(q, x)) = Len(q) + 1
                   /\ Append(q, x)[Len(q) + 1] = x
                   /\ \A i \in 1..Len(q) : Append(q, x)[i] = q[i]
    OBVIOUS
<1>4. Len(q) \in Nat /\ (q = <<>> <=> Len(q) = 0)
    OBVIOUS
<1> QED BY <1>1, <1>2, <1>3, <1>4

\* The modes, the flags, the task and the counters.
ControlTypes ==
    /\ mode \in Modes
    /\ isActionStarted \in BOOLEAN
    /\ connectRetry \in -1..MAX_CONNECT_RETRY
    /\ isDisconnectWaiting \in BOOLEAN
    /\ task \in Tasks
    /\ scanning \in BOOLEAN
    /\ target \in Devices \cup {NoDevice}
    /\ timerTask \in BOOLEAN
    /\ attempt \in 0..MaxAttempts
    /\ abandoned \subseteq Attempts

\* The control keeps its types.
LEMMA ControlTypesStep ==
    ASSUME IInv, [Next]_vars
    PROVE  ControlTypes'
<1> USE DEF ControlTypes, Modes, Tasks, MAX_CONNECT_RETRY, control, history, pdus
<1>0. TypeOK /\ LinkInv
    BY DEF IInv
<1>1. ControlTypes
    BY <1>0 DEF TypeOK
<1>2. CASE \E d \in Devices : StartProvisioning(d)
  <2> PICK d \in Devices : StartProvisioning(d)
      BY <1>2
  <2>1. attempt + 1 \in 0..MaxAttempts
      BY <1>1, ProvisioningAssumption DEF StartProvisioning
  <2>2. isDisconnectWaiting' \in BOOLEAN /\ scanning' \in BOOLEAN
      BY <1>1 DEF StartProvisioning
  <2>3. /\ mode' = "PROVISION" /\ task' = "none" /\ isActionStarted' = FALSE
        /\ connectRetry' = 0 /\ target' = d /\ attempt' = attempt + 1
        /\ timerTask' = timerTask /\ abandoned' = abandoned
      BY DEF StartProvisioning
  <2>4. connectRetry' \in -1..3 /\ attempt' \in 0..MaxAttempts /\ target' \in Devices
      BY <2>1, <2>3
  <2> QED BY <1>1, <2>2, <2>3, <2>4
<1>3. CASE AutoConnect \/ \E disconnect \in BOOLEAN : AppIdle(disconnect)
  <2>1. mode = "PROVISION" => attempt \in Attempts
      BY <1>0, <1>1, ProvisioningAssumption DEF LinkInv, Attempts
  <2>2. abandoned' \subseteq Attempts
      BY <1>1, <1>3, <2>1 DEF AutoConnect, AppIdle, Abandon
  <2> QED BY <1>1, <1>3, <2>2 DEF AutoConnect, AppIdle, Idle, DisconnectCallsBack
<1>4. CASE AppDisconnect \/ TimerReports
  <2>1. mode = "PROVISION" => attempt \in Attempts
      BY <1>0, <1>1, ProvisioningAssumption DEF LinkInv, Attempts
  <2>2. abandoned' \subseteq Attempts
      BY <1>1, <1>4, <2>1 DEF AppDisconnect, TimerReports, Abandon
  <2> QED BY <1>1, <1>4, <2>2 DEF AppDisconnect, TimerReports, ProvisionComplete, Idle
<1>5. CASE \/ Connected \/ ServicesDiscovered \/ DiscoveryFails \/ RunInit \/ RunSuccess
           \/ RunScan \/ (\E d \in Devices : ScanFound(d)) \/ ScanTimeout \/ TimerFires
           \/ NodeReceives \/ NodeTimeout
    BY <1>1, <1>5
    DEF Connected, ServicesDiscovered, DiscoveryFails, RunInit, RunSuccess, RunScan, ScanFound,
        ScanTimeout, TimerFires, NodeReceives, NodeTimeout
<1>6. CASE Disconnected
  <2>1. connectRetry' \in -1..3 /\ task' \in Tasks
      BY <1>1, <1>6 DEF Disconnected
  <2> QED BY <1>1, <1>6, <2>1 DEF Disconnected
<1>7. CASE RunInterrupt
    BY <1>1, <1>7 DEF RunInterrupt, ProvisionComplete, Idle
<1>8. CASE RunConnectFail \/ RunReconnect
  <2>1. connectRetry \in -1..3 /\ connectRetry < 3
      BY <1>0, <1>1, <1>8 DEF RunConnectFail, RunReconnect, LinkInv
  <2>2. connectRetry + 1 \in -1..3
      BY <2>1
  <2> QED BY <1>1, <1>8, <2>2 DEF RunConnectFail, RunReconnect, Idle
<1>9. CASE PhoneReceives
  <2>1. UNCHANGED <<target, timerTask, attempt, abandoned>>
      BY <1>9 DEF PhoneReceives
  <2>2. \/ UNCHANGED <<mode, isActionStarted, connectRetry, isDisconnectWaiting, task, scanning>>
        \/ /\ mode' = "IDLE" /\ task' = "none" /\ isActionStarted' = FALSE /\ scanning' = FALSE
           /\ UNCHANGED <<connectRetry, isDisconnectWaiting>>
      BY <1>9 DEF PhoneReceives, Handled, ProvisionComplete, Idle
  <2> QED BY <1>1, <2>1, <2>2
<1>10. CASE UNCHANGED vars
    BY <1>1, <1>10 DEF vars
<1> QED BY <1>2, <1>3, <1>4, <1>5, <1>6, <1>7, <1>8, <1>9, <1>10 DEF Next, AppCall

\* The link keeps its types.
LEMMA LinkTypesStep ==
    ASSUME IInv, [Next]_vars
    PROVE  link' \in Links
<1>0. TypeOK /\ LinkInv
    BY DEF IInv
<1>1. link \in Links /\ DisconnectedLink \in Links
    BY <1>0, DisconnectedLinkFacts DEF TypeOK
<1>2. \A d \in Devices :
          [state |-> "CONNECTING", device |-> d, services |-> FALSE] \in Links
    BY DEF Links, LinkStates
<1>3. CASE \/ AppCall \/ DiscoveryFails \/ RunInit \/ RunSuccess \/ RunScan \/ RunInterrupt
           \/ RunConnectFail \/ RunReconnect \/ (\E d \in Devices : ScanFound(d)) \/ ScanTimeout
           \/ TimerFires \/ TimerReports \/ PhoneReceives \/ NodeReceives \/ NodeTimeout
           \/ UNCHANGED vars
  <2>1. \/ link' \in {link, DisconnectedLink}
        \/ \E d \in Devices : Connect(d)
        \/ RunReconnect /\ Connect(target)
      BY <1>3
      DEF AppCall, StartProvisioning, AutoConnect, AppIdle, AppDisconnect, DiscoveryFails, RunInit,
          RunSuccess, RunScan, RunInterrupt, RunConnectFail, RunReconnect, ScanFound, ScanTimeout,
          TimerFires, TimerReports, PhoneReceives, NodeReceives, NodeTimeout, Handled,
          ProvisionComplete, Idle, vars
  <2>2. RunReconnect => target \in Devices
      BY <1>0 DEF RunReconnect, LinkInv
  <2> QED BY <1>1, <1>2, <2>1, <2>2 DEF Connect
<1>4. CASE Connected \/ Disconnected \/ ServicesDiscovered
    BY <1>1, <1>4 DEF Connected, Disconnected, ServicesDiscovered, Links, LinkStates
<1> QED BY <1>3, <1>4 DEF Next

\* The controller keeps its types, its device and the records it asks for.
LEMMA ControllerStep ==
    ASSUME IInv, [Next]_vars
    PROVE  ctl' \in Controllers /\ Runs(ctl')
<1>1. TypeOK /\ LinkInv /\ ctl \in Controllers /\ Runs(ctl)
    BY DEF IInv, TypeOK
<1>2. Clear(ctl) \in Controllers /\ Runs(Clear(ctl))
    BY <1>1, ClearFacts
<1>3. CASE RunSuccess
  <2>1. CASE mode = "PROVISION"
    <3>1. target \in Devices /\ attempt \in 0..MaxAttempts
        BY <1>1, <2>1 DEF LinkInv, TypeOK
    <3>2. ctl' = Begin(ctl, target, attempt).ctl
        BY <1>3, <2>1 DEF RunSuccess
    <3> QED BY <1>1, <3>1, <3>2, BeginFacts
  <2>2. CASE mode # "PROVISION"
      BY <1>1, <1>3, <2>2 DEF RunSuccess
  <2> QED BY <2>1, <2>2
<1>4. CASE TimerFires
  <2>1. ctl' = [ctl EXCEPT !.state = "FAILED", !.timer = FALSE] /\ ctl.timer
      BY <1>4 DEF TimerFires
  <2>2. ctl.device \in Devices
      BY <1>1, <2>1 DEF IInv, AttemptInv, Runs
  <2> QED BY <1>1, <2>1, <2>2 DEF Controllers, States, Runs
<1>5. CASE PhoneReceives
  <2>1. CASE ~isActionStarted
      BY <1>1, <1>5, <2>1 DEF PhoneReceives
  <2>2. CASE isActionStarted
    <3> DEFINE r == PushNotification(ctl, Head(toPhone))
    <3>1. Head(toPhone) \in ToPhonePdus
        BY <1>1, <1>5, SequenceFacts DEF PhoneReceives, TypeOK
    <3>2. Handles(ctl, Head(toPhone), r)
        BY <1>1, <3>1, PushNotificationFacts
    <3>3. ctl' = IF r.end = "no" THEN r.ctl ELSE Clear(r.ctl)
        BY <1>5, <2>2 DEF PhoneReceives, Handled
    <3> HIDE DEF r
    <3>4. r.ctl \in Controllers /\ (r.end = "no" => Runs(r.ctl))
        BY <3>2 DEF Handles
    <3> QED BY <3>3, <3>4, ClearFacts
  <2> QED BY <2>1, <2>2
<1>6. CASE \/ AppCall \/ Connected \/ Disconnected \/ ServicesDiscovered \/ DiscoveryFails
           \/ RunInit \/ RunScan \/ RunInterrupt \/ RunConnectFail \/ RunReconnect
           \/ (\E d \in Devices : ScanFound(d)) \/ ScanTimeout \/ TimerReports
           \/ NodeReceives \/ NodeTimeout \/ UNCHANGED vars
  <2>1. ctl' \in {ctl, Clear(ctl)}
      BY <1>6
      DEF AppCall, StartProvisioning, AutoConnect, AppIdle, AppDisconnect, Connected, Disconnected,
          ServicesDiscovered, DiscoveryFails, RunInit, RunScan, RunInterrupt, RunConnectFail,
          RunReconnect, ScanFound, ScanTimeout, TimerReports, NodeReceives, NodeTimeout,
          ValidateActionMode, vars
  <2> QED BY <1>1, <1>2, <2>1
<1> QED BY <1>3, <1>4, <1>5, <1>6 DEF Next

\* The PDUs keep their types.
LEMMA PduTypesStep ==
    ASSUME IInv, [Next]_vars
    PROVE  toNode' \in Seq(ToNodePdus) /\ toPhone' \in Seq(ToPhonePdus)
<1>1. TypeOK /\ LinkInv /\ toNode \in Seq(ToNodePdus) /\ toPhone \in Seq(ToPhonePdus)
    BY DEF IInv, TypeOK
<1>2. CASE Disconnected
    BY <1>2 DEF Disconnected
<1>3. CASE RunSuccess
  <2>1. CASE mode = "PROVISION" /\ link.state = "CONNECTED"
    <3>1. target \in Devices /\ attempt \in 0..MaxAttempts /\ ctl \in Controllers
        BY <1>1, <2>1 DEF LinkInv, TypeOK
    <3>2. /\ toNode' = toNode \o Begin(ctl, target, attempt).send
          /\ toPhone' = toPhone
        BY <1>3, <2>1 DEF RunSuccess
    <3>3. Begin(ctl, target, attempt).send \in Seq(ToNodePdus)
      <4>1. \E x \in ToNodePdus : Begin(ctl, target, attempt).send = <<x>>
          BY <3>1, BeginFacts
      <4> QED BY <4>1
    <3> QED BY <1>1, <3>2, <3>3, SequenceFacts
  <2>2. CASE ~(mode = "PROVISION" /\ link.state = "CONNECTED")
      BY <1>1, <1>3, <2>2 DEF RunSuccess
  <2> QED BY <2>1, <2>2
<1>4. CASE PhoneReceives
  <2>1. toPhone' \in Seq(ToPhonePdus) /\ Head(toPhone) \in ToPhonePdus
      BY <1>1, <1>4, SequenceFacts DEF PhoneReceives
  <2>2. CASE isActionStarted
    <3> DEFINE r == PushNotification(ctl, Head(toPhone))
    <3>1. Handles(ctl, Head(toPhone), r)
        BY <1>1, <2>1, PushNotificationFacts DEF IInv, TypeOK
    <3>2. toNode' = IF link.state = "CONNECTED" THEN toNode \o r.send ELSE toNode
        BY <1>4, <2>2 DEF PhoneReceives, Handled
    <3> HIDE DEF r
    <3>3. r.send \in Seq(ToNodePdus)
        BY <3>1 DEF Handles
    <3>4. toNode \o r.send \in Seq(ToNodePdus)
        BY <1>1, <3>3, SequenceFacts
    <3> QED BY <1>1, <2>1, <3>2, <3>4
  <2>3. CASE ~isActionStarted
      BY <1>1, <1>4, <2>1, <2>3 DEF PhoneReceives
  <2> QED BY <2>2, <2>3
<1>5. CASE NodeReceives
  <2> DEFINE d == link.device
             a == Dispatch(node[d], d, Head(toNode))
  <2>1. toNode' \in Seq(ToNodePdus) /\ Head(toNode) \in ToNodePdus
      BY <1>1, <1>5, SequenceFacts DEF NodeReceives
  <2>2. d \in Devices /\ node[d] \in NodeStates
      BY <1>1, <1>5 DEF NodeReceives, Joined, LinkInv, TypeOK
  <2>3. NodeDoes(node[d], d, Head(toNode), a)
      BY <2>1, <2>2, DispatchFacts
  <2>4. toPhone' = toPhone \o a.out
      BY <1>5 DEF NodeReceives
  <2> HIDE DEF a
  <2>5. a.out \in Seq(ToPhonePdus)
    <3>1. <<>> \in Seq(ToPhonePdus) /\ \A x \in ToPhonePdus : <<x>> \in Seq(ToPhonePdus)
        OBVIOUS
    <3> QED BY <2>3, <3>1 DEF NodeDoes
  <2>6. toPhone \o a.out \in Seq(ToPhonePdus)
      BY <1>1, <2>5, SequenceFacts
  <2> QED BY <2>1, <2>4, <2>6
<1>6. CASE \/ AppCall \/ Connected \/ ServicesDiscovered \/ DiscoveryFails
           \/ RunInit \/ RunScan \/ RunInterrupt \/ RunConnectFail \/ RunReconnect
           \/ (\E d \in Devices : ScanFound(d)) \/ ScanTimeout \/ TimerFires \/ TimerReports
           \/ NodeTimeout \/ UNCHANGED vars
  <2>1. toNode' = toNode /\ toPhone' = toPhone
      BY <1>6
      DEF AppCall, StartProvisioning, AutoConnect, AppIdle, AppDisconnect, Connected,
          ServicesDiscovered, DiscoveryFails, RunInit, RunScan, RunInterrupt, RunConnectFail,
          RunReconnect, ScanFound, ScanTimeout, TimerFires, TimerReports, NodeTimeout, pdus, vars
  <2> QED BY <1>1, <2>1
<1> QED BY <1>2, <1>3, <1>4, <1>5, <1>6 DEF Next

-----------------------------------------------------------------------------
(* The link and its PDUs.                                                   *)

\* The link stays or is given up, and nothing new is posted or begun.
LEMMA LinkKept ==
    ASSUME TypeOK, LinkInv,
           link' \in {link, DisconnectedLink},
           task' = task \/ task' \notin {"init", "success", "disconnection"},
           \/ UNCHANGED <<mode, target, attempt, connectRetry>>
           \/ mode' # "PROVISION",
           UNCHANGED <<toNode, toPhone>> \/ toNode # <<>> \/ toPhone # <<>>
    PROVE  LinkInv'
<1>1. /\ link'.device = link.device /\ link'.services = link.services
      /\ link'.state # "IDLE" => link.state # "IDLE"
      /\ Joined => Joined'
      /\ link'.state \in {"CONNECTING", "CONNECTED"} => link' = link
      /\ link.state = "IDLE" => link'.state = "IDLE"
    BY DisconnectedLinkFacts DEF Joined
<1>2. ~link.services \/ task' \in {"init", "success"} => toNode' = <<>> /\ toPhone' = <<>>
    BY DEF LinkInv
<1> QED BY <1>1, <1>2 DEF LinkInv

\* What LinkInv says, in each step.
LEMMA LinkStep ==
    ASSUME IInv, [Next]_vars
    PROVE  LinkInv'
<1>1. TypeOK /\ LinkInv
    BY DEF IInv
<1>2. CASE \E d \in Devices : StartProvisioning(d)
  <2> PICK d \in Devices : StartProvisioning(d)
      BY <1>2
  <2>1. /\ mode' = "PROVISION" /\ task' = "none" /\ connectRetry' = 0 /\ target' = d
        /\ attempt' = attempt + 1 /\ toNode' = toNode /\ toPhone' = toPhone
      BY DEF StartProvisioning, pdus
  <2>2. attempt' # 0
      BY <1>1, <2>1, ProvisioningAssumption DEF TypeOK
  <2>3. CASE DisconnectCallsBack
    <3>1. link' = DisconnectedLink /\ link'.state = "DISCONNECTING"
          /\ link'.device = link.device /\ link'.services = link.services
        BY <1>1, <2>3, DisconnectedLinkFacts DEF StartProvisioning, DisconnectCallsBack
    <3>2. link.device \in Devices
        BY <1>1, <2>3 DEF DisconnectCallsBack, LinkInv
    <3> QED BY <1>1, <2>1, <2>2, <3>1, <3>2 DEF LinkInv, Joined, MAX_CONNECT_RETRY
  <2>4. CASE ~DisconnectCallsBack
    <3>1. link' = [state |-> "CONNECTING", device |-> d, services |-> FALSE]
        BY <2>4 DEF StartProvisioning, Connect
    <3>2. ~link.services
        BY <1>1, <2>4 DEF DisconnectCallsBack, LinkInv, Joined
    <3> QED BY <1>1, <2>1, <2>2, <3>1, <3>2 DEF LinkInv, Joined, MAX_CONNECT_RETRY
  <2> QED BY <2>3, <2>4
<1>3. CASE \/ AutoConnect \/ (\E disconnect \in BOOLEAN : AppIdle(disconnect)) \/ AppDisconnect
           \/ DiscoveryFails \/ RunScan \/ RunInterrupt \/ RunConnectFail \/ ScanTimeout
           \/ TimerFires \/ TimerReports \/ NodeTimeout \/ UNCHANGED vars
  <2>1. /\ link' \in {link, DisconnectedLink}
        /\ task' = task \/ task' \notin {"init", "success", "disconnection"}
        /\ \/ UNCHANGED <<mode, target, attempt, connectRetry>>
           \/ mode' # "PROVISION"
        /\ UNCHANGED <<toNode, toPhone>>
    <3>1. CASE AutoConnect \/ (\E disconnect \in BOOLEAN : AppIdle(disconnect)) \/ AppDisconnect
        BY <3>1 DEF AutoConnect, AppIdle, AppDisconnect, Idle, control, pdus, history
    <3>2. CASE DiscoveryFails \/ RunScan \/ ScanTimeout \/ TimerFires \/ NodeTimeout
               \/ UNCHANGED vars
        BY <3>2 DEF DiscoveryFails, RunScan, ScanTimeout, TimerFires, NodeTimeout,
                    control, pdus, history, vars
    <3>3. CASE RunInterrupt \/ RunConnectFail \/ TimerReports
        BY <3>3 DEF RunInterrupt, RunConnectFail, TimerReports, ProvisionComplete, Idle,
                    control, pdus, history
    <3> QED BY <1>3, <3>1, <3>2, <3>3
  <2> QED BY <1>1, <2>1, LinkKept
<1>4. CASE Connected
  <2>1. /\ link.state = "CONNECTING" /\ link' = [link EXCEPT !.state = "CONNECTED"]
        /\ UNCHANGED <<mode, connectRetry, task, target, attempt, toNode, toPhone>>
      BY <1>4 DEF Connected, control, pdus, history
  <2>2. link'.device = link.device /\ link'.services = link.services /\ link'.state = "CONNECTED"
      BY <1>1, <2>1 DEF TypeOK, Links
  <2> QED BY <1>1, <2>1, <2>2 DEF LinkInv, Joined
<1>5. CASE Disconnected
  <2>1. /\ link' = [link EXCEPT !.state = "IDLE", !.services = FALSE]
        /\ toNode' = <<>> /\ toPhone' = <<>>
        /\ connectRetry' = IF isDisconnectWaiting THEN -1 ELSE connectRetry
        /\ task' = IF mode = "IDLE" THEN "none" ELSE "disconnection"
        /\ UNCHANGED <<mode, target, attempt>>
      BY <1>5 DEF Disconnected, history
  <2>2. link'.state = "IDLE" /\ link'.services = FALSE
      BY <1>1, <2>1 DEF TypeOK, Links
  <2>3. mode = "PROVISION" => connectRetry' < 3
      BY <1>1, <2>1 DEF LinkInv, MAX_CONNECT_RETRY
  <2> QED BY <1>1, <2>1, <2>2, <2>3 DEF LinkInv, Joined, MAX_CONNECT_RETRY
<1>6. CASE ServicesDiscovered
  <2>1. /\ Joined /\ ~link.services /\ link' = [link EXCEPT !.services = TRUE] /\ task' = "init"
        /\ UNCHANGED <<mode, connectRetry, target, attempt, toNode, toPhone>>
      BY <1>6 DEF ServicesDiscovered, pdus, history
  <2>2. link'.device = link.device /\ link'.services = TRUE /\ link'.state = link.state
      BY <1>1, <2>1 DEF TypeOK, Links
  <2> QED BY <1>1, <2>1, <2>2 DEF LinkInv, Joined
<1>7. CASE RunInit
  <2>1. /\ task = "init" /\ task' = "success"
        /\ UNCHANGED <<mode, connectRetry, target, attempt, link, toNode, toPhone>>
      BY <1>7 DEF RunInit, pdus, history
  <2> QED BY <1>1, <2>1 DEF LinkInv, Joined
<1>8. CASE RunSuccess
  <2>1. /\ task = "success" /\ task' = "none" /\ toPhone' = toPhone
        /\ UNCHANGED <<mode, connectRetry, target, attempt, link>>
      BY <1>8 DEF RunSuccess, history
  <2> QED BY <1>1, <2>1 DEF LinkInv, Joined
<1>9. CASE RunReconnect \/ \E d \in Devices : ScanFound(d)
  <2>1. PICK d \in Devices :
            /\ link' = [state |-> "CONNECTING", device |-> d, services |-> FALSE]
            /\ link.state = "IDLE"
            /\ \/ mode' # "PROVISION" /\ task' = task
               \/ /\ task' = "none" /\ d = target /\ connectRetry' = connectRetry + 1
                  /\ connectRetry + 1 < 3 /\ mode = "PROVISION"
            /\ UNCHANGED <<mode, target, attempt, toNode, toPhone>>
    <3>1. CASE RunReconnect
      <4>1. target \in Devices /\ link.state = "IDLE" /\ connectRetry \in -1..3
          BY <1>1, <3>1 DEF RunReconnect, LinkInv, TypeOK, MAX_CONNECT_RETRY
      <4>2. connectRetry + 1 < 3
          BY <3>1, <4>1 DEF RunReconnect, GivesUp, MAX_CONNECT_RETRY
      <4> QED BY <3>1, <4>1, <4>2 DEF RunReconnect, Connect, pdus, history
    <3>2. CASE \E d \in Devices : ScanFound(d)
      <4> PICK d \in Devices : ScanFound(d)
          BY <3>2
      <4>1. /\ link' = [state |-> "CONNECTING", device |-> d, services |-> FALSE]
            /\ link.state = "IDLE" /\ mode' # "PROVISION" /\ task' = task
            /\ UNCHANGED <<mode, target, attempt, toNode, toPhone>>
          BY DEF ScanFound, Connect, pdus, history
      <4> QED BY <4>1
    <3> QED BY <1>9, <3>1, <3>2
  <2>2. ~link.services /\ task \notin {"init", "success"} /\ toNode = <<>> /\ toPhone = <<>>
      BY <1>1, <2>1 DEF LinkInv, Joined
  <2> QED BY <1>1, <2>1, <2>2 DEF LinkInv, Joined, MAX_CONNECT_RETRY
<1>10. CASE PhoneReceives
  <2>1. toPhone # <<>> /\ UNCHANGED <<target, attempt>>
      BY <1>10 DEF PhoneReceives, history
  <2>2. \/ UNCHANGED <<mode, task, connectRetry, link>>
        \/ mode' = "IDLE" /\ task' = "none" /\ link' \in {link, DisconnectedLink}
      BY <1>10 DEF PhoneReceives, Handled, ProvisionComplete, Idle, control
  <2> QED BY <1>1, <2>1, <2>2, LinkKept
<1>11. CASE NodeReceives
  <2>1. toNode # <<>> /\ UNCHANGED <<target, attempt, mode, task, connectRetry, link>>
      BY <1>11 DEF NodeReceives, history, control
  <2> QED BY <1>1, <2>1, LinkKept
<1> QED
    BY <1>2, <1>3, <1>4, <1>5, <1>6, <1>7, <1>8, <1>9, <1>10, <1>11 DEF Next, AppCall

\* The PDUs on the link stay, and with them what they are of.
LEMMA PdusKept ==
    ASSUME IInv, NodesKeep,
           UNCHANGED <<toNode, toPhone>>,
           link'.device = link.device,
           ctl'.device = ctl.device, ctl'.devKey = ctl.devKey,
           ctl'.state \in BeforeData => ctl.state \in BeforeData
    PROVE  PduInv'
<1>1. PduInv /\ LinkInv
    BY DEF IInv
<1>2. toPhone # <<>> => link.device \in Devices
    BY <1>1 DEF LinkInv, Joined
<1>3. \A i \in 1..Len(toPhone) : toPhone[i].type = "COMPLETE" =>
           /\ node'[link.device].provisioned /\ node'[link.device].devKey = ctl.devKey
           /\ ctl.state \notin BeforeData
  <2> SUFFICES ASSUME NEW i \in 1..Len(toPhone), toPhone[i].type = "COMPLETE"
               PROVE  /\ node'[link.device].provisioned
                      /\ node'[link.device].devKey = ctl.devKey
                      /\ ctl.state \notin BeforeData
      OBVIOUS
  <2>1. toPhone # <<>>
    <3>1. toPhone = <<>> => Len(toPhone) = 0
        OBVIOUS
    <3> QED BY <3>1
  <2> QED BY <1>1, <1>2, <2>1 DEF PduInv, NodesKeep
<1> QED BY <1>1, <1>3 DEF PduInv

\* There are no PDUs.
LEMMA PdusGone ==
    ASSUME toNode' = <<>>, toPhone' = <<>>
    PROVE  PduInv'
<1>1. Len(toNode') = 0 /\ Len(toPhone') = 0
    OBVIOUS
<1> QED BY <1>1 DEF PduInv

\* A PDU that the controller takes, and what it sends.
LEMMA PhoneReceivesPdus ==
    ASSUME IInv, PhoneReceives
    PROVE  PduInv'
<1>1. /\ TypeOK /\ LinkInv /\ PduInv /\ Runs(ctl) /\ ctl \in Controllers
      /\ toNode \in Seq(ToNodePdus) /\ toPhone \in Seq(ToPhonePdus)
    BY DEF IInv, TypeOK
<1>2. toPhone # <<>> /\ toPhone' = Tail(toPhone) /\ node' = node
    BY DEF PhoneReceives
<1>3. /\ Head(toPhone) \in ToPhonePdus /\ Head(toPhone) = toPhone[1] /\ 1 \in 1..Len(toPhone)
      /\ \A i \in 1..Len(toPhone') : i + 1 \in 1..Len(toPhone) /\ toPhone'[i] = toPhone[i + 1]
    BY <1>1, <1>2, SequenceFacts
<1>4. ctl.device = link.device
    BY <1>1, <1>2 DEF PduInv
<1>5. CASE ~isActionStarted
  <2>1. UNCHANGED <<link, ctl, toNode>>
      BY <1>5 DEF PhoneReceives
  <2> QED BY <1>1, <1>2, <1>3, <1>4, <2>1 DEF PduInv
<1>6. CASE isActionStarted
  <2> DEFINE r == PushNotification(ctl, Head(toPhone))
  <2>1. Handles(ctl, Head(toPhone), r)
      BY <1>1, <1>3, PushNotificationFacts
  <2>2. Handled(r)
      BY <1>6 DEF PhoneReceives
  <2> HIDE DEF r
  <2>3. r.ctl \in Controllers /\ SameRun(ctl, r.ctl) /\ r.send \in Seq(ToNodePdus)
      BY <2>1 DEF Handles
  <2>4. /\ ctl' \in {r.ctl, Clear(r.ctl)}
        /\ link' \in {link, DisconnectedLink}
        /\ toNode' = IF link.state = "CONNECTED" THEN toNode \o r.send ELSE toNode
      BY <2>2 DEF Handled, ProvisionComplete, Idle
  <2>5. /\ ctl'.device = ctl.device /\ ctl'.devKey = r.ctl.devKey
        /\ ctl'.state \in BeforeData => ctl'.state = r.ctl.state
      BY <2>3, <2>4, ClearFacts DEF SameRun, BeforeData
  <2>6. link'.device = link.device
      BY <1>1, <2>4, DisconnectedLinkFacts
  <2>7. CASE /\ r.ctl.devKey = ctl.devKey
             /\ \A i \in 1..Len(r.send) : r.send[i].type # "DATA"
    <3>1. ctl'.state \in BeforeData => ctl.state \in BeforeData
        BY <2>1, <2>5 DEF Handles
    <3>2. \A i \in 1..Len(toNode') : toNode'[i].type = "DATA" =>
              \E j \in 1..Len(toNode) : toNode'[i] = toNode[j]
      <4>1. \A i \in 1..Len(toNode \o r.send) :
                \/ i \in 1..Len(toNode) /\ (toNode \o r.send)[i] = toNode[i]
                \/ \E j \in 1..Len(r.send) : (toNode \o r.send)[i] = r.send[j]
          BY <1>1, <2>3, SequenceFacts
      <4> QED BY <2>4, <2>7, <4>1
    <3>3. \A i \in 1..Len(toNode') : toNode'[i].type = "DATA" =>
              toNode'[i].secret = ctl'.devKey /\ ctl'.state \notin BeforeData
        BY <1>1, <2>5, <2>7, <3>1, <3>2 DEF PduInv
    <3>4. \A i \in 1..Len(toPhone') : toPhone'[i].type = "COMPLETE" =>
              /\ node'[link'.device].provisioned /\ node'[link'.device].devKey = ctl'.devKey
              /\ ctl'.state \notin BeforeData
        BY <1>1, <1>2, <1>3, <2>5, <2>6, <2>7, <3>1 DEF PduInv
    <3> QED BY <1>4, <2>5, <2>6, <3>3, <3>4 DEF PduInv
  <2>8. CASE /\ ctl.state \in BeforeData /\ r.ctl.state \notin BeforeData
             /\ \A i \in 1..Len(r.send) : r.send[i].secret = r.ctl.devKey
    <3>1. ctl'.state \notin BeforeData
        BY <2>5, <2>8
    <3>2. /\ \A i \in 1..Len(toNode) : toNode[i].type # "DATA"
          /\ \A i \in 1..Len(toPhone) : toPhone[i].type # "COMPLETE"
        BY <1>1, <2>8 DEF PduInv
    <3>3. \A i \in 1..Len(toNode') : toNode'[i].type = "DATA" =>
              toNode'[i].secret = r.ctl.devKey
      <4>1. \A i \in 1..Len(toNode \o r.send) :
                \/ i \in 1..Len(toNode) /\ (toNode \o r.send)[i] = toNode[i]
                \/ \E j \in 1..Len(r.send) : (toNode \o r.send)[i] = r.send[j]
          BY <1>1, <2>3, SequenceFacts
      <4> QED BY <2>4, <2>8, <3>2, <4>1
    <3>4. \A i \in 1..Len(toPhone') : toPhone'[i].type # "COMPLETE"
        BY <1>3, <3>2
    <3> QED BY <1>4, <2>5, <2>6, <3>1, <3>3, <3>4 DEF PduInv
  <2> QED BY <2>1, <2>7, <2>8 DEF Handles
<1> QED BY <1>5, <1>6

\* A PDU that the node takes, and its answer.
LEMMA NodeReceivesPdus ==
    ASSUME IInv, NodesKeep, NodeReceives
    PROVE  PduInv'
<1> DEFINE d == link.device
           a == Dispatch(node[d], d, Head(toNode))
<1>1. /\ TypeOK /\ LinkInv /\ PduInv
      /\ toNode \in Seq(ToNodePdus) /\ toPhone \in Seq(ToPhonePdus)
    BY DEF IInv, TypeOK
<1>2. /\ toNode # <<>> /\ toNode' = Tail(toNode) /\ toPhone' = toPhone \o a.out
      /\ node' = [node EXCEPT ![d] = a.node] /\ link' = link /\ ctl' = ctl
    BY DEF NodeReceives
<1>3. d \in Devices /\ node[d] \in NodeStates /\ node'[d] = a.node
    BY <1>1, <1>2 DEF NodeReceives, Joined, LinkInv, TypeOK
<1>4. /\ Head(toNode) \in ToNodePdus /\ Head(toNode) = toNode[1] /\ 1 \in 1..Len(toNode)
      /\ \A i \in 1..Len(toNode') : i + 1 \in 1..Len(toNode) /\ toNode'[i] = toNode[i + 1]
    BY <1>1, <1>2, SequenceFacts
<1>5. NodeDoes(node[d], d, Head(toNode), a)
    BY <1>3, <1>4, DispatchFacts
<1> HIDE DEF a
<1>6. ctl.device = link.device
    BY <1>1, <1>2 DEF PduInv
<1>7. \A i \in 1..Len(toNode') : toNode'[i].type = "DATA" =>
           toNode'[i].secret = ctl'.devKey /\ ctl'.state \notin BeforeData
    BY <1>1, <1>2, <1>4 DEF PduInv
<1>8. \A i \in 1..Len(toPhone') : toPhone'[i].type = "COMPLETE" =>
           /\ node'[d].provisioned /\ node'[d].devKey = ctl.devKey
           /\ ctl.state \notin BeforeData
  <2>1. \A i \in 1..Len(toPhone) : toPhone[i].type = "COMPLETE" =>
           /\ node'[d].provisioned /\ node'[d].devKey = ctl.devKey
           /\ ctl.state \notin BeforeData
      BY <1>1, <1>3 DEF PduInv, NodesKeep
  <2>2. CASE a.out = <<>>
    <3>1. toPhone' = toPhone
        BY <1>1, <1>2, <2>2
    <3> QED BY <2>1, <3>1
  <2>3. CASE \E x \in ToPhonePdus : a.out = <<x>>
    <3> PICK x \in ToPhonePdus : a.out = <<x>>
        BY <2>3
    <3>1. x.type = "COMPLETE" =>
              Head(toNode).type = "DATA" /\ a.node.provisioned
              /\ a.node.devKey = Head(toNode).secret
        BY <1>5 DEF NodeDoes
    <3>2. x.type = "COMPLETE" => /\ node'[d].provisioned /\ node'[d].devKey = ctl.devKey
                                 /\ ctl.state \notin BeforeData
        BY <1>1, <1>3, <1>4, <3>1 DEF PduInv
    <3>3. \A i \in 1..Len(toPhone') : \/ i \in 1..Len(toPhone) /\ toPhone'[i] = toPhone[i]
                                      \/ toPhone'[i] = x
      <4>1. toPhone' = toPhone \o <<x>>
          BY <1>2
      <4> QED BY <1>1, <4>1
    <3> QED BY <2>1, <3>2, <3>3
  <2> QED BY <1>5, <2>2, <2>3 DEF NodeDoes
<1> QED BY <1>2, <1>6, <1>7, <1>8 DEF PduInv

\* What PduInv says, in each step.
LEMMA PduStep ==
    ASSUME IInv, [Next]_vars
    PROVE  PduInv'
<1>1. TypeOK /\ LinkInv /\ NodesKeep /\ ctl \in Controllers
    BY NodeStep DEF IInv, TypeOK
<1>2. DisconnectedLink.device = link.device
    BY <1>1, DisconnectedLinkFacts
<1>3. /\ Clear(ctl).device = ctl.device /\ Clear(ctl).devKey = ctl.devKey
      /\ Clear(ctl).state \notin BeforeData
    BY <1>1, ClearFacts DEF BeforeData
<1>4. CASE Disconnected
    BY <1>4, PdusGone DEF Disconnected
<1>5. CASE \/ \E d \in Devices : StartProvisioning(d) /\ ~DisconnectCallsBack
           \/ RunReconnect \/ \E d \in Devices : ScanFound(d)
  <2>1. ~Joined /\ toNode' = toNode /\ toPhone' = toPhone
    <3>1. CASE \E d \in Devices : StartProvisioning(d) /\ ~DisconnectCallsBack
        BY <3>1 DEF StartProvisioning, DisconnectCallsBack, Joined, pdus
    <3>2. CASE RunReconnect
        BY <1>1, <3>2 DEF RunReconnect, LinkInv, Joined, pdus
    <3>3. CASE \E d \in Devices : ScanFound(d)
        BY <3>3 DEF ScanFound, Joined, pdus
    <3> QED BY <1>5, <3>1, <3>2, <3>3
  <2>2. toNode = <<>> /\ toPhone = <<>>
      BY <1>1, <2>1 DEF LinkInv
  <2> QED BY <2>1, <2>2, PdusGone
<1>6. CASE RunSuccess
  <2>1. toNode = <<>> /\ toPhone = <<>> /\ toPhone' = toPhone /\ link' = link
      BY <1>1, <1>6 DEF RunSuccess, LinkInv
  <2>2. CASE mode = "PROVISION" /\ link.state = "CONNECTED"
    <3> DEFINE r == Begin(ctl, target, attempt)
    <3>1. target \in Devices /\ attempt \in 0..MaxAttempts /\ link.device = target
        BY <1>1, <2>2 DEF LinkInv, TypeOK
    <3>2. ctl' = r.ctl /\ toNode' = toNode \o r.send
        BY <1>6, <2>2 DEF RunSuccess
    <3>3. r.ctl.device = target
        BY <1>1, <3>1, BeginFacts
    <3>4. \E x \in ToNodePdus : r.send = <<x>> /\ x.type # "DATA"
        BY <1>1, <3>1, BeginFacts
    <3> HIDE DEF r
    <3>5. PICK x \in ToNodePdus : r.send = <<x>> /\ x.type # "DATA"
        BY <3>4
    <3>6. toNode' = <<x>>
        BY <2>1, <3>2, <3>5
    <3>7. \A i \in 1..Len(toNode') : toNode'[i].type # "DATA"
        BY <3>5, <3>6, SendFacts
    <3>8. Len(toPhone') = 0
        BY <2>1
    <3> QED BY <2>1, <3>1, <3>2, <3>3, <3>7, <3>8 DEF PduInv
  <2>3. CASE ~(mode = "PROVISION" /\ link.state = "CONNECTED")
    <3>1. toNode' = toNode
        BY <1>6, <2>3 DEF RunSuccess
    <3> QED BY <2>1, <3>1, PdusGone
  <2> QED BY <2>2, <2>3
<1>7. CASE TimerFires
  <2>1. ctl' = [ctl EXCEPT !.state = "FAILED", !.timer = FALSE]
        /\ UNCHANGED <<link, toNode, toPhone>>
      BY <1>7 DEF TimerFires, pdus
  <2>2. ctl'.device = ctl.device /\ ctl'.devKey = ctl.devKey /\ ctl'.state \notin BeforeData
      BY <1>1, <2>1 DEF Controllers, BeforeData
  <2> QED BY <1>1, <2>1, <2>2, PdusKept
<1>8. CASE PhoneReceives
    BY <1>8, PhoneReceivesPdus
<1>9. CASE NodeReceives
    BY <1>1, <1>9, NodeReceivesPdus
<1>10. CASE Connected \/ ServicesDiscovered
  <2>1. UNCHANGED <<ctl, toNode, toPhone>> /\ link'.device = link.device
      BY <1>1, <1>10 DEF Connected, ServicesDiscovered, TypeOK, Links, pdus
  <2> QED BY <1>1, <2>1, PdusKept
<1>11. CASE \/ \E d \in Devices : StartProvisioning(d) /\ DisconnectCallsBack
            \/ AutoConnect \/ (\E disconnect \in BOOLEAN : AppIdle(disconnect)) \/ AppDisconnect
            \/ DiscoveryFails \/ RunInit \/ RunScan \/ RunInterrupt \/ RunConnectFail
            \/ ScanTimeout \/ TimerReports \/ NodeTimeout \/ UNCHANGED vars
  <2>1. /\ UNCHANGED <<toNode, toPhone>>
        /\ link' \in {link, DisconnectedLink}
        /\ ctl' \in {ctl, Clear(ctl)}
    <3>1. CASE \/ \E d \in Devices : StartProvisioning(d) /\ DisconnectCallsBack
               \/ AutoConnect \/ (\E disconnect \in BOOLEAN : AppIdle(disconnect))
               \/ AppDisconnect
        BY <3>1 DEF StartProvisioning, AutoConnect, AppIdle, AppDisconnect, Idle,
                    ValidateActionMode, pdus
    <3>2. CASE DiscoveryFails \/ RunInit \/ RunScan \/ ScanTimeout \/ NodeTimeout
               \/ UNCHANGED vars
        BY <3>2 DEF DiscoveryFails, RunInit, RunScan, ScanTimeout, NodeTimeout, pdus, vars
    <3>3. CASE RunInterrupt \/ RunConnectFail \/ TimerReports
        BY <3>3 DEF RunInterrupt, RunConnectFail, TimerReports, ProvisionComplete, Idle, pdus
    <3> QED BY <1>11, <3>1, <3>2, <3>3
  <2> QED BY <1>1, <1>2, <1>3, <2>1, PdusKept
<1> QED
    BY <1>4, <1>5, <1>6, <1>7, <1>8, <1>9, <1>10, <1>11 DEF Next, AppCall

-----------------------------------------------------------------------------
(* The saved keys, the attempt and its outcomes.                            *)

\* onProvisionComplete, as the handler of a PDU calls it.
Completes(what) ==
    /\ what \in {"success", "failed"}
    /\ isActionStarted /\ ctl.state # "IDLE"
    /\ mode' = "IDLE"
    /\ ctl'.state = "IDLE" /\ ~ctl'.timer /\ ctl'.n = ctl.n
    /\ Report(ctl.n, what)
    /\ what = "success" => Head(toPhone).type = "COMPLETE"
    /\ saved' = IF what = "success" THEN [saved EXCEPT ![ctl.device] = ctl.devKey] ELSE saved

\* A PDU the phone takes leaves the attempt as it is, or ends it.
LEMMA PhoneReceivesFacts ==
    ASSUME IInv, PhoneReceives
    PROVE  /\ UNCHANGED <<attempt, timerTask>>
           /\ \/ \E what \in {"success", "failed"} : Completes(what)
              \/ /\ UNCHANGED <<mode, isActionStarted, outcomes, saved>>
                 /\ SameRun(ctl, ctl') /\ (ctl'.state = "IDLE" <=> ctl.state = "IDLE")
<1>1. /\ ctl \in Controllers /\ Runs(ctl) /\ toPhone \in Seq(ToPhonePdus)
    BY DEF IInv, TypeOK
<1>2. UNCHANGED <<attempt, timerTask>>
    BY DEF PhoneReceives, history
<1>3. CASE ~isActionStarted
  <2>1. UNCHANGED <<mode, isActionStarted, outcomes, saved, ctl>>
      BY <1>3 DEF PhoneReceives, control
  <2> QED BY <1>2, <2>1 DEF SameRun
<1>4. CASE isActionStarted
  <2> DEFINE r == PushNotification(ctl, Head(toPhone))
  <2>1. Head(toPhone) \in ToPhonePdus
      BY <1>1, SequenceFacts DEF PhoneReceives
  <2>2. Handles(ctl, Head(toPhone), r)
      BY <1>1, <2>1, PushNotificationFacts
  <2>3. Handled(r)
      BY <1>4 DEF PhoneReceives
  <2> HIDE DEF r
  <2>4. CASE r.end = "no"
    <3>1. /\ UNCHANGED <<mode, isActionStarted, outcomes, saved>> /\ ctl' = r.ctl
        BY <2>3, <2>4 DEF Handled, control
    <3> QED BY <1>2, <2>2, <3>1 DEF Handles
  <2>5. CASE r.end # "no"
    <3>1. r.end \in {"success", "failed"}
        BY <2>2, <2>5 DEF Handles
    <3>2. r.ctl \in Controllers /\ SameRun(ctl, r.ctl) /\ ctl.state # "IDLE"
        BY <2>2, <2>5 DEF Handles
    <3>3. /\ ctl' = Clear(r.ctl) /\ mode' = "IDLE" /\ Report(r.ctl.n, r.end)
          /\ saved' = IF r.end = "success"
                      THEN [saved EXCEPT ![r.ctl.device] = r.ctl.devKey] ELSE saved
        BY <2>3, <2>5 DEF Handled, ProvisionComplete, Idle
    <3>4. ctl'.state = "IDLE" /\ ~ctl'.timer /\ ctl'.n = ctl.n /\ Report(ctl.n, r.end)
        BY <3>2, <3>3, ClearFacts DEF SameRun
    <3>5. r.end = "success" => Head(toPhone).type = "COMPLETE" /\ r.ctl = ctl
        BY <2>2 DEF Handles
    <3>6. Completes(r.end)
        BY <1>4, <3>1, <3>2, <3>3, <3>4, <3>5 DEF Completes
    <3> QED BY <1>2, <3>1, <3>6
  <2> QED BY <2>4, <2>5
<1> QED BY <1>3, <1>4

\* What is saved at COMPLETE is the key the node has, and nodes keep theirs.
LEMMA SavedStep ==
    ASSUME IInv, [Next]_vars
    PROVE  saved' \in [Devices -> Secrets] /\ KeysAgree'
<1>1. /\ TypeOK /\ PduInv /\ Runs(ctl) /\ KeysAgree /\ NodesKeep
      /\ saved \in [Devices -> Secrets] /\ ctl \in Controllers
    BY NodeStep DEF IInv, TypeOK
<1>2. CASE saved' = saved
    BY <1>1, <1>2 DEF KeysAgree, NodesKeep
<1>3. CASE PhoneReceives /\ saved' # saved
  <2>1. /\ saved' = [saved EXCEPT ![ctl.device] = ctl.devKey]
        /\ Head(toPhone).type = "COMPLETE" /\ ctl.state # "IDLE"
      BY <1>3, PhoneReceivesFacts DEF Completes
  <2>2. ctl.device \in Devices /\ ctl.devKey \in Secrets
      BY <1>1, <2>1 DEF Runs, Controllers
  <2>3. saved' \in [Devices -> Secrets]
      BY <1>1, <2>1, <2>2
  <2>4. toPhone # <<>> /\ node' = node
      BY <1>3 DEF PhoneReceives
  <2>5. Head(toPhone) = toPhone[1] /\ 1 \in 1..Len(toPhone)
      BY <1>1, <2>4, SequenceFacts DEF TypeOK
  <2>6. node[ctl.device].provisioned /\ node[ctl.device].devKey = ctl.devKey
      BY <1>1, <2>1, <2>4, <2>5 DEF PduInv
  <2>7. \A d \in Devices : saved'[d] = IF d = ctl.device THEN ctl.devKey ELSE saved[d]
      BY <1>1, <2>1
  <2> QED BY <1>1, <2>3, <2>4, <2>6, <2>7 DEF KeysAgree
<1>4. PhoneReceives \/ saved' = saved
    BY DEF Next, AppCall, StartProvisioning, AutoConnect, AppIdle, AppDisconnect, Connected,
           Disconnected, ServicesDiscovered, DiscoveryFails, RunInit, RunSuccess, RunScan,
           RunInterrupt, RunConnectFail, RunReconnect, ScanFound, ScanTimeout, TimerFires,
           TimerReports, NodeReceives, NodeTimeout, vars
<1> QED BY <1>2, <1>3, <1>4

\* What AttemptInv says, in each step.
LEMMA AttemptStep ==
    ASSUME IInv, [Next]_vars
    PROVE  AttemptInv'
<1>1. TypeOK /\ LinkInv /\ AttemptInv /\ ctl \in Controllers
    BY DEF IInv, TypeOK
<1>2. Clear(ctl).state = "IDLE" /\ ~Clear(ctl).timer /\ Clear(ctl).n = ctl.n
    BY <1>1, ClearFacts
<1>3. CASE \E d \in Devices : StartProvisioning(d)
  <2>1. mode # "PROVISION" /\ ~isActionStarted' /\ UNCHANGED <<ctl, timerTask>>
      BY <1>3 DEF StartProvisioning
  <2> QED BY <1>1, <2>1 DEF AttemptInv
<1>4. CASE AutoConnect \/ \E disconnect \in BOOLEAN : AppIdle(disconnect)
  <2>1. mode' # "PROVISION" /\ ctl' = ValidateActionMode /\ timerTask' = timerTask
      BY <1>4 DEF AutoConnect, AppIdle, Idle
  <2> QED BY <1>1, <1>2, <2>1 DEF AttemptInv, ValidateActionMode
<1>5. CASE RunSuccess
  <2>1. CASE mode = "PROVISION"
    <3>1. target \in Devices /\ attempt \in 0..MaxAttempts
        BY <1>1, <2>1 DEF LinkInv, TypeOK
    <3>2. /\ ctl' = Begin(ctl, target, attempt).ctl /\ ~timerTask
          /\ UNCHANGED <<mode, timerTask, attempt>>
        BY <1>5, <2>1 DEF RunSuccess, history
    <3>3. ctl'.state \in BeforeData /\ ctl'.n = attempt
        BY <1>1, <3>1, <3>2, BeginFacts
    <3> QED BY <2>1, <3>2, <3>3 DEF AttemptInv, BeforeData
  <2>2. CASE mode # "PROVISION"
    <3>1. UNCHANGED <<mode, isActionStarted, ctl, timerTask, attempt>>
        BY <1>5, <2>2 DEF RunSuccess, history
    <3> QED BY <1>1, <3>1 DEF AttemptInv
  <2> QED BY <2>1, <2>2
<1>6. CASE TimerFires
  <2>1. /\ ctl' = [ctl EXCEPT !.state = "FAILED", !.timer = FALSE] /\ timerTask'
        /\ UNCHANGED <<mode, isActionStarted, attempt>>
      BY <1>6 DEF TimerFires, control, history
  <2>2. ctl'.n = ctl.n /\ ctl'.timer = FALSE
      BY <1>1, <2>1 DEF Controllers
  <2> QED BY <1>1, <2>1, <2>2 DEF AttemptInv
<1>7. CASE RunInterrupt \/ RunConnectFail \/ TimerReports
  <2>1. ctl' = Clear(ctl) /\ mode' = "IDLE"
      BY <1>7 DEF RunInterrupt, RunConnectFail, TimerReports, ProvisionComplete, Idle
  <2> QED BY <1>2, <2>1 DEF AttemptInv
<1>8. CASE PhoneReceives
  <2>1. UNCHANGED <<attempt, timerTask>>
      BY <1>8, PhoneReceivesFacts
  <2>2. CASE \E what \in {"success", "failed"} : Completes(what)
      BY <2>2 DEF Completes, AttemptInv
  <2>3. CASE /\ UNCHANGED <<mode, isActionStarted>>
             /\ SameRun(ctl, ctl') /\ (ctl'.state = "IDLE" <=> ctl.state = "IDLE")
      BY <1>1, <2>1, <2>3 DEF AttemptInv, SameRun
  <2> QED BY <1>8, <2>2, <2>3, PhoneReceivesFacts
<1>9. CASE \/ AppDisconnect \/ Connected \/ Disconnected \/ ServicesDiscovered \/ DiscoveryFails
           \/ RunInit \/ RunScan \/ RunReconnect \/ (\E d \in Devices : ScanFound(d))
           \/ ScanTimeout \/ NodeReceives \/ NodeTimeout \/ UNCHANGED vars
  <2>1. UNCHANGED <<mode, isActionStarted, ctl, timerTask, attempt>>
      BY <1>9
      DEF AppDisconnect, Connected, Disconnected, ServicesDiscovered, DiscoveryFails, RunInit,
          RunScan, RunReconnect, ScanFound, ScanTimeout, NodeReceives, NodeTimeout, control,
          history, vars
  <2> QED BY <1>1, <2>1 DEF AttemptInv
<1> QED BY <1>3, <1>4, <1>5, <1>6, <1>7, <1>8, <1>9 DEF Next, AppCall

\* An outcome that is reported is the first of its attempt, or the timeout after
\* one that came while the timeout task was under way; but for that task it is of
\* the attempt being made.
Reports(n, what) ==
    /\ Report(n, what)
    /\ n <= attempt /\ attempt' = attempt
    /\ mode' = "IDLE"
    /\ ~timerTask => mode = "PROVISION" /\ n = attempt
    /\ \/ outcomes[n] = <<>>
       \/ timerTask /\ what = "timeout" /\ Len(outcomes[n]) = 1 /\ outcomes[n][1].late
    /\ timerTask' => timerTask /\ outcomes[n] = <<>> /\ ctl'.n = n /\ ctl'.state = "IDLE"

\* The attempt being made is one, and has no outcome.
LEMMA AttemptFacts ==
    ASSUME IInv, mode = "PROVISION"
    PROVE  attempt \in Attempts /\ outcomes[attempt] = <<>>
<1>1. attempt \in 0..MaxAttempts /\ attempt # 0 /\ outcomes[attempt] = <<>>
    BY DEF IInv, TypeOK, LinkInv, OutcomeInv
<1> QED BY <1>1, ProvisioningAssumption DEF Attempts

\* What is reported in each step.
LEMMA ReportStep ==
    ASSUME IInv, [Next]_vars
    PROVE  outcomes' = outcomes \/ \E n \in Attempts, what \in Outcomes : Reports(n, what)
<1>1. TypeOK /\ AttemptInv /\ OutcomeInv /\ ctl \in Controllers
    BY DEF IInv, TypeOK
<1>a. mode = "PROVISION" => /\ attempt \in Attempts /\ outcomes[attempt] = <<>>
                            /\ attempt <= attempt
  <2> HAVE mode = "PROVISION"
  <2>1. attempt \in Attempts /\ outcomes[attempt] = <<>>
      BY AttemptFacts
  <2> QED BY <2>1 DEF Attempts
<1>2. CASE RunInterrupt
  <2>1. /\ mode = "PROVISION" /\ ~timerTask /\ ~timerTask' /\ mode' = "IDLE"
        /\ attempt' = attempt /\ Report(ctl.n, "connection interrupt") /\ ctl.n = attempt
        /\ timerTask' = timerTask
      BY <1>1, <1>2 DEF RunInterrupt, ProvisionComplete, Idle, history, AttemptInv
  <2>2. Reports(ctl.n, "connection interrupt")
      BY <1>a, <2>1 DEF Reports
  <2> QED BY <1>a, <2>1, <2>2 DEF Outcomes
<1>3. CASE RunConnectFail
  <2>1. /\ mode = "PROVISION" /\ ~timerTask /\ ~timerTask' /\ mode' = "IDLE"
        /\ attempt' = attempt /\ Report(attempt, "connect fail")
      BY <1>3 DEF RunConnectFail, Idle, history
  <2>2. Reports(attempt, "connect fail")
      BY <1>a, <2>1 DEF Reports
  <2> QED BY <1>a, <2>1, <2>2 DEF Outcomes
<1>4. CASE TimerReports
  <2>1. /\ timerTask /\ ~timerTask' /\ mode' = "IDLE" /\ attempt' = attempt
        /\ Report(ctl.n, "timeout")
      BY <1>4 DEF TimerReports, ProvisionComplete, Idle
  <2>2. ctl.n \in Attempts /\ Reports(ctl.n, "timeout")
      BY <1>1, <2>1 DEF Reports, OutcomeInv
  <2> QED BY <2>2 DEF Outcomes
<1>5. CASE PhoneReceives /\ outcomes' # outcomes
  <2>1. PICK what \in {"success", "failed"} : Completes(what)
      BY <1>5, PhoneReceivesFacts
  <2>2. attempt' = attempt /\ timerTask' = timerTask
      BY <1>5, PhoneReceivesFacts
  <2>3. CASE timerTask
    <3>1. ctl.n \in Attempts /\ ctl.n <= attempt /\ outcomes[ctl.n] = <<>>
        BY <1>1, <2>1, <2>3 DEF OutcomeInv, Completes
    <3>2. Reports(ctl.n, what)
        BY <2>1, <2>2, <2>3, <3>1 DEF Reports, Completes
    <3> QED BY <2>1, <3>1, <3>2 DEF Outcomes
  <2>4. CASE ~timerTask
    <3>1. mode = "PROVISION" /\ ctl.n = attempt
        BY <1>1, <2>1, <2>4 DEF AttemptInv, Completes
    <3>2. Reports(ctl.n, what)
        BY <1>a, <2>1, <2>2, <2>4, <3>1 DEF Reports, Completes
    <3> QED BY <1>a, <2>1, <3>1, <3>2 DEF Outcomes
  <2> QED BY <2>3, <2>4
<1>6. CASE \/ AppCall \/ Connected \/ Disconnected \/ ServicesDiscovered \/ DiscoveryFails
           \/ RunInit \/ RunSuccess \/ RunScan \/ RunReconnect \/ (\E d \in Devices : ScanFound(d))
           \/ ScanTimeout \/ TimerFires \/ NodeReceives \/ NodeTimeout \/ UNCHANGED vars
    BY <1>6
    DEF AppCall, StartProvisioning, AutoConnect, AppIdle, AppDisconnect, Connected, Disconnected,
        ServicesDiscovered, DiscoveryFails, RunInit, RunSuccess, RunScan, RunReconnect, ScanFound,
        ScanTimeout, TimerFires, NodeReceives, NodeTimeout, vars
<1> QED BY <1>2, <1>3, <1>4, <1>5, <1>6 DEF Next

\* What is reported is put behind what was.
LEMMA ReportFacts ==
    ASSUME TypeOK, NEW n \in Attempts, NEW what \in Outcomes, Report(n, what)
    PROVE  /\ outcomes' \in [Attempts -> Seq([what : Outcomes, late : BOOLEAN])]
           /\ \A m \in Attempts : m # n => outcomes'[m] = outcomes[m]
           /\ outcomes[n] = <<>> => Len(outcomes'[n]) = 1 /\ outcomes'[n][1].late = timerTask
           /\ Len(outcomes[n]) = 1 =>
                /\ Len(outcomes'[n]) = 2
                /\ outcomes'[n][1] = outcomes[n][1]
                /\ outcomes'[n][2] = [what |-> what, late |-> timerTask]
<1> DEFINE S == [what : Outcomes, late : BOOLEAN]
           e == [what |-> what, late |-> timerTask]
           q == outcomes[n]
<1>1. outcomes \in [Attempts -> Seq(S)] /\ q \in Seq(S) /\ e \in S /\ e.late = timerTask
    BY DEF TypeOK
<1>2. outcomes' = [outcomes EXCEPT ![n] = Append(q, e)]
    BY DEF Report
<1> HIDE DEF S, e, q
<1>3. /\ Append(q, e) \in Seq(S) /\ Len(Append(q, e)) = Len(q) + 1
      /\ Append(q, e)[Len(q) + 1] = e /\ \A i \in 1..Len(q) : Append(q, e)[i] = q[i]
      /\ q = <<>> => Len(q) = 0
    BY <1>1, SequenceFacts
<1>4. /\ outcomes' \in [Attempts -> Seq(S)] /\ outcomes'[n] = Append(q, e)
      /\ \A m \in Attempts : m # n => outcomes'[m] = outcomes[m]
    BY <1>1, <1>2, <1>3
<1>5. Len(q) = 1 => /\ Len(Append(q, e)) = 2 /\ Append(q, e)[1] = q[1] /\ Append(q, e)[2] = e
    BY <1>3
<1>6. q = <<>> => Len(Append(q, e)) = 1 /\ Append(q, e)[1].late = timerTask
    BY <1>1, <1>3
<1> QED BY <1>4, <1>5, <1>6 DEF S, e, q

\* What OutcomeInv and OutcomeOnce say, in each step.
LEMMA OutcomeStep ==
    ASSUME IInv, [Next]_vars
    PROVE  /\ outcomes' \in [Attempts -> Seq([what : Outcomes, late : BOOLEAN])]
           /\ OutcomeInv' /\ OutcomeOnce'
<1>1. /\ TypeOK /\ AttemptInv /\ OutcomeInv /\ OutcomeOnce /\ ctl \in Controllers
      /\ outcomes \in [Attempts -> Seq([what : Outcomes, late : BOOLEAN])]
    BY DEF IInv, TypeOK
<1>a. attempt \in Nat
    BY <1>1, ProvisioningAssumption DEF TypeOK
<1>2. CASE \E n \in Attempts, what \in Outcomes : Reports(n, what)
  <2> PICK n \in Attempts, what \in Outcomes : Reports(n, what)
      BY <1>2
  <2> USE DEF Reports
  <2>1. n \in Nat /\ Report(n, what)
      BY DEF Attempts
  <2>2. /\ outcomes' \in [Attempts -> Seq([what : Outcomes, late : BOOLEAN])]
        /\ \A m \in Attempts : m # n => outcomes'[m] = outcomes[m]
        /\ outcomes[n] = <<>> => Len(outcomes'[n]) = 1 /\ outcomes'[n][1].late = timerTask
        /\ Len(outcomes[n]) = 1 =>
             /\ Len(outcomes'[n]) = 2
             /\ outcomes'[n][1] = outcomes[n][1]
             /\ outcomes'[n][2] = [what |-> what, late |-> timerTask]
      BY <1>1, <2>1, ReportFacts
  <2>3. OutcomeOnce'
    <3> SUFFICES ASSUME NEW m \in Attempts
                 PROVE  \/ Len(outcomes'[m]) <= 1
                        \/ /\ Len(outcomes'[m]) = 2
                           /\ outcomes'[m][1].late
                           /\ outcomes'[m][2] = [what |-> "timeout", late |-> TRUE]
        BY DEF OutcomeOnce
    <3>1. CASE m # n
      <4>1. outcomes'[m] = outcomes[m]
          BY <2>2, <3>1
      <4> QED BY <1>1, <4>1 DEF OutcomeOnce
    <3>2. CASE m = n /\ outcomes[n] = <<>>
      <4>1. Len(outcomes'[m]) = 1
          BY <2>2, <3>2
      <4> QED BY <4>1
    <3>3. CASE m = n /\ timerTask /\ what = "timeout" /\ Len(outcomes[n]) = 1
               /\ outcomes[n][1].late
      <4>1. timerTask = TRUE
          BY <1>1, <3>3 DEF TypeOK
      <4> QED BY <2>2, <3>3, <4>1
    <3> QED BY <3>1, <3>2, <3>3
  <2>4. \A m \in Attempts : m > attempt' => outcomes'[m] = <<>>
      BY <1>1, <1>a, <2>1, <2>2 DEF OutcomeInv, Attempts
  <2>5. timerTask' => /\ ctl'.n \in Attempts /\ ctl'.n <= attempt'
                      /\ ctl'.state = "IDLE"
                      /\ Len(outcomes'[ctl'.n]) = 1 /\ outcomes'[ctl'.n][1].late
      BY <2>2
  <2> QED BY <2>2, <2>3, <2>4, <2>5 DEF OutcomeInv
<1>3. CASE outcomes' = outcomes
  <2>1. OutcomeOnce'
      BY <1>1, <1>3 DEF OutcomeOnce
  <2>2. CASE \E d \in Devices : StartProvisioning(d)
    <3>1. attempt' = attempt + 1 /\ attempt < MaxAttempts /\ UNCHANGED <<ctl, timerTask>>
        BY <2>2 DEF StartProvisioning
    <3>2. attempt + 1 \in Attempts
        BY <1>a, <3>1, ProvisioningAssumption DEF Attempts
    <3>3. \A n \in Attempts : n > attempt + 1 => n > attempt
        BY <1>a DEF Attempts
    <3>4. ctl.n \in Attempts /\ ctl.n <= attempt => ctl.n <= attempt + 1
        BY <1>a DEF Attempts
    <3>5. attempt + 1 > attempt
        BY <1>a
    <3>6. outcomes[attempt + 1] = <<>>
        BY <1>1, <3>2, <3>5 DEF OutcomeInv
    <3> QED BY <1>1, <1>3, <2>1, <3>1, <3>3, <3>4, <3>6 DEF OutcomeInv
  <2>3. CASE TimerFires
    <3>1. /\ ctl' = [ctl EXCEPT !.state = "FAILED", !.timer = FALSE] /\ ctl.timer /\ ~timerTask
          /\ UNCHANGED <<mode, attempt>>
        BY <2>3 DEF TimerFires, history
    <3>2. ctl'.n = ctl.n
        BY <1>1, <3>1 DEF Controllers
    <3>3. mode = "PROVISION" /\ ctl.n = attempt
        BY <1>1, <3>1 DEF AttemptInv
    <3>4. attempt \in Attempts /\ outcomes[attempt] = <<>> /\ attempt <= attempt
        BY <1>a, <3>3, AttemptFacts
    <3> QED BY <1>1, <1>3, <2>1, <3>1, <3>2, <3>3, <3>4 DEF OutcomeInv
  <2>4. CASE /\ attempt' = attempt
             /\ mode' = "PROVISION" => mode = "PROVISION"
             /\ timerTask' => /\ timerTask /\ ctl'.n = ctl.n
                              /\ ctl.state = "IDLE" => ctl'.state = "IDLE"
      BY <1>1, <1>3, <2>1, <2>4 DEF OutcomeInv
  <2>5. \/ \E d \in Devices : StartProvisioning(d)
        \/ TimerFires
        \/ /\ attempt' = attempt
           /\ mode' = "PROVISION" => mode = "PROVISION"
           /\ timerTask' => /\ timerTask /\ ctl'.n = ctl.n
                            /\ ctl.state = "IDLE" => ctl'.state = "IDLE"
    <3> USE DEF history, control
    <3>1. Clear(ctl).state = "IDLE" /\ Clear(ctl).n = ctl.n
        BY <1>1, ClearFacts
    <3>2. CASE AutoConnect \/ \E disconnect \in BOOLEAN : AppIdle(disconnect)
      <4>1. /\ mode' # "PROVISION" /\ ctl' \in {ctl, Clear(ctl)}
            /\ UNCHANGED <<attempt, timerTask>>
          BY <3>2 DEF AutoConnect, AppIdle, Idle, ValidateActionMode
      <4> QED BY <3>1, <4>1
    <3>3. CASE RunInterrupt \/ RunConnectFail \/ TimerReports
      <4>1. ~timerTask' /\ attempt' = attempt
        <5>1. CASE RunInterrupt \/ RunConnectFail
          <6>1. ~timerTask /\ timerTask' = timerTask /\ attempt' = attempt
              BY <5>1 DEF RunInterrupt, RunConnectFail
          <6> QED BY <6>1
        <5>2. CASE TimerReports
            BY <5>2 DEF TimerReports
        <5> QED BY <3>3, <5>1, <5>2
      <4>2. mode' = "IDLE"
          BY <3>3 DEF RunInterrupt, RunConnectFail, TimerReports, ProvisionComplete, Idle
      <4> QED BY <4>1, <4>2
    <3>4. CASE PhoneReceives
        BY <3>4, PhoneReceivesFacts DEF Completes, SameRun
    <3>5. CASE RunSuccess
        BY <3>5 DEF RunSuccess
    <3>6. CASE \/ AppDisconnect \/ Connected \/ Disconnected \/ ServicesDiscovered
               \/ DiscoveryFails \/ RunInit \/ RunScan \/ RunReconnect
               \/ (\E d \in Devices : ScanFound(d)) \/ ScanTimeout \/ NodeReceives
               \/ NodeTimeout \/ UNCHANGED vars
      <4>1. UNCHANGED <<mode, ctl, timerTask, attempt>>
          BY <3>6
          DEF AppDisconnect, Connected, Disconnected, ServicesDiscovered, DiscoveryFails, RunInit,
              RunScan, RunReconnect, ScanFound, ScanTimeout, NodeReceives, NodeTimeout, vars
      <4> QED BY <4>1
    <3> QED BY <3>2, <3>3, <3>4, <3>5, <3>6 DEF Next, AppCall
  <2> QED BY <2>2, <2>3, <2>4, <2>5
<1> QED BY <1>2, <1>3, ReportStep

-----------------------------------------------------------------------------
(* The theorems.                                                            *)

\* Every step keeps the invariant.
LEMMA StepInv == IInv /\ [Next]_vars => IInv'
<1> SUFFICES ASSUME IInv, [Next]_vars PROVE IInv'
    OBVIOUS
<1>1. /\ NodesKeep /\ ControlTypes' /\ link' \in Links /\ ctl' \in Controllers /\ Runs(ctl')
      /\ toNode' \in Seq(ToNodePdus) /\ toPhone' \in Seq(ToPhonePdus)
    BY NodeStep, ControlTypesStep, LinkTypesStep, ControllerStep, PduTypesStep
<1>2. /\ saved' \in [Devices -> Secrets] /\ KeysAgree'
      /\ outcomes' \in [Attempts -> Seq([what : Outcomes, late : BOOLEAN])]
      /\ OutcomeInv' /\ OutcomeOnce'
    BY SavedStep, OutcomeStep
<1>3. TypeOK'
    BY <1>1, <1>2 DEF TypeOK, ControlTypes, NodesKeep
<1>4. NodesSettled' /\ Runs(ctl)'
    BY <1>1 DEF NodesKeep, Runs
<1>5. LinkInv' /\ PduInv' /\ AttemptInv'
    BY LinkStep, PduStep, AttemptStep
<1> QED BY <1>2, <1>3, <1>4, <1>5 DEF IInv

\* The invariant holds in every state.
LEMMA Invariance == Spec => []IInv
    BY InitInv, StepInv, PTL DEF Spec

\* The variables keep the types of the fields they model.
THEOREM TypeCorrect == Spec => []TypeOK
<1>1. IInv => TypeOK
    BY DEF IInv
<1> QED BY <1>1, Invariance, PTL

\* The device key the provisioner has saved is the one the node has: COMPLETE is
\* only ever taken from the node, and of the data, that the controller's present
\* key was made for.
THEOREM KeysAlwaysAgree == Spec => []KeysAgree
<1>1. IInv => KeysAgree
    BY DEF IInv
<1> QED BY <1>1, Invariance, PTL

\* The application is told one outcome of an attempt (onProvisionComplete), and a
\* second one, the timeout, only after one that came while the timeout task was
\* under way.
THEOREM ToldOnce == Spec => []OutcomeOnce
<1>1. IInv => OutcomeOnce
    BY DEF IInv
<1> QED BY <1>1, Invariance, PTL

\* But for the timeout task, what is reported is the attempt being made, in the
\* mode of it: onProvisionComplete ends nothing the application has begun since.
THEOREM OfThisAttempt == Spec => OutcomeOfThisAttempt
<1>1. IInv /\ [Next]_vars =>
          [\A n \in Attempts :
              outcomes'[n] # outcomes[n] /\ ~timerTask => mode = "PROVISION" /\ n = attempt]_vars
  <2> SUFFICES ASSUME IInv, [Next]_vars, NEW n \in Attempts,
                      outcomes'[n] # outcomes[n], ~timerTask
               PROVE  mode = "PROVISION" /\ n = attempt
      OBVIOUS
  <2>1. PICK m \in Attempts, what \in Outcomes : Reports(m, what)
      BY ReportStep
  <2>2. \A k \in Attempts : k # m => outcomes'[k] = outcomes[k]
      BY <2>1, ReportFacts DEF IInv, Reports
  <2> QED BY <2>1, <2>2 DEF Reports
<1> QED BY <1>1, Invariance, PTL DEF Spec, OutcomeOfThisAttempt

\* A provisioned node keeps its device key, whatever is sent to it in another
\* provisioning (mesh_provision_para_reset, dispatch_pb_gatt).
THEOREM NodeKept == Spec => ProvisionedNodeKept
<1>1. IInv /\ [Next]_vars =>
          [\A d \in Devices :
              node[d].provisioned => node'[d].provisioned /\ node'[d].devKey = node[d].devKey]_vars
    BY NodeStep DEF NodesKeep
<1> QED BY <1>1, Invariance, PTL DEF Spec, ProvisionedNodeKept

=============================================================================
