--------------------------- MODULE ProvisioningNode ---------------------------
(***************************************************************************)
(* An unprovisioned node of the firmware (vendor/common/app_provison.c)    *)
(* over PB-GATT: what it keeps of a provisioning, and what each PDU does.  *)
(*                                                                         *)
(* A node is a record:                                                     *)
(*   rcv          prov_para.provison_rcv_state                             *)
(*   phoneKey     the provisioner's public key in confirm_input            *)
(*   confirm      pro_confirm, the provisioner's confirmation              *)
(*   provisioned  provision_mag.gatt_mode is GATT_PROXY_MODE (in flash)    *)
(*   devKey       the device key (in flash)                                *)
(*                                                                         *)
(* A key pair of the provisioner is the number of the attempt it was made  *)
(* for.  The shared secret of an attempt and the public key of a device is *)
(* the pair of the two, and so is the device key made from it.  A          *)
(* confirmation is the secret and the authentication value it was made     *)
(* with: two that were made alike agree, any others do not.                *)
(***************************************************************************)
EXTENDS Naturals, Sequences

CONSTANTS Devices,   \* the nodes
          NoDevice,  \* null
          Certified, \* those built with CERTIFY_BASE_ENABLE: cert_base_en
          OobKey,    \* those whose capabilities name an OOB public key
          StaticOob  \* those whose capabilities name a static OOB value

ASSUME ProvisioningNodeAssumption ==
    /\ NoDevice \notin Devices
    /\ Certified \subseteq Devices
    /\ OobKey \subseteq Devices
    /\ StaticOob \subseteq Devices

RcvStates == {"UNPROVISION", "REC_REQ", "CAPA", "START", "PUB_KEY", "CONFIRM",
              "RANDOM", "SUC"}
Auths     == {"right", "wrong", "none"}
Secrets   == Nat \X (Devices \cup {NoDevice})
NoSecret  == <<0, NoDevice>>
NoConfirm == [secret |-> NoSecret, auth |-> "none"]
Confirms  == [secret : Secrets, auth : Auths]
NodeStates == [rcv : RcvStates, phoneKey : Nat, confirm : Confirms,
               provisioned : BOOLEAN, devKey : Secrets]

\* The PDUs.
Plain(type)    == [type |-> type]
Capabilities(d) == [type |-> "CAPABILITIES", oobKey |-> d \in OobKey,
                    static |-> d \in StaticOob]
Start(k, s)    == [type |-> "START", oobKey |-> k, static |-> s]
PublicKey(k)   == [type |-> "PUBLIC_KEY", key |-> k]
Confirmation(c) == [type |-> "CONFIRMATION", confirm |-> c]
Data(k)        == [type |-> "DATA", secret |-> k]

ToNodePdus  == {Plain(t) : t \in {"RECORDS_GET", "RECORD_REQUEST", "INVITE", "RANDOM"}}
               \cup {Start(k, s) : k, s \in BOOLEAN}
               \cup [type : {"PUBLIC_KEY"}, key : Nat]
               \cup [type : {"CONFIRMATION"}, confirm : Confirms]
               \cup [type : {"DATA"}, secret : Secrets]
ToPhonePdus == {Plain(t) : t \in {"RECORDS_LIST", "RECORD_RESPONSE", "RANDOM",
                                  "COMPLETE", "FAILED"}}
               \cup [type : {"CAPABILITIES"}, oobKey : BOOLEAN, static : BOOLEAN]
               \cup [type : {"PUBLIC_KEY"}, key : Devices]
               \cup [type : {"CONFIRMATION"}, confirm : Confirms]

NewNode == [rcv |-> "UNPROVISION", phoneKey |-> 0, confirm |-> NoConfirm,
            provisioned |-> FALSE, devKey |-> NoSecret]

-----------------------------------------------------------------------------
\* A handler gives the node after the PDU and the PDUs it answers with.
Answer(s, out) == [node |-> s, out |-> out]
Ignore(s)      == Answer(s, <<>>)

\* mesh_provision_para_reset: also at every connection, at every disconnection
\* and when the node's own timeout ends the provisioning.  (confirm_input and
\* pro_confirm keep their contents, which are written again before they are read.)
ParaReset(s) == [s EXCEPT !.rcv = "UNPROVISION", !.phoneKey = 0, !.confirm = NoConfirm]

\* prov_fail_cmd_proc
FailCmd(s) == Answer(ParaReset(s), <<Plain("FAILED")>>)

\* The secret and the confirmation of the node itself.
Secret(s, d)     == <<s.phoneKey, d>>
DevConfirm(s, d) == [secret |-> Secret(s, d),
                     auth |-> IF d \in StaticOob THEN "right" ELSE "none"]

\* provisionee_gatt_rcv_invite_proc.  Mutant: a provisioned node answers.
RcvInviteAgain(s, d) == Answer([ParaReset(s) EXCEPT !.rcv = "CAPA"], <<Capabilities(d)>>)

RcvInvite(s, d) ==
    IF s.provisioned THEN Ignore(ParaReset(s))
    ELSE Answer([ParaReset(s) EXCEPT !.rcv = "CAPA"], <<Capabilities(d)>>)

\* LINK_UNPROVISION_STATE: with a certificate the records come first.
InUnprovision(s, d, pdu) ==
    CASE d \in Certified /\ pdu.type = "RECORDS_GET" ->
             Answer([s EXCEPT !.rcv = "REC_REQ"], <<Plain("RECORDS_LIST")>>)
      [] d \notin Certified /\ pdu.type = "INVITE" -> RcvInvite(s, d)
      [] OTHER -> Ignore(s)

\* STATE_PRO_REC_REQ
InRecReq(s, d, pdu) ==
    CASE pdu.type = "RECORD_REQUEST" -> Answer(s, <<Plain("RECORD_RESPONSE")>>)
      [] pdu.type = "INVITE"         -> RcvInvite(s, d)
      [] OTHER -> Ignore(s)

\* STATE_DEV_CAPA, with dispatch_start_cmd_reliable: what the provisioner chose
\* is what the capabilities name.
InCapa(s, d, pdu) ==
    IF pdu.type = "START" /\ pdu.oobKey = (d \in OobKey) /\ pdu.static = (d \in StaticOob)
    THEN Ignore([s EXCEPT !.rcv = "START"])
    ELSE FailCmd(s)

\* STATE_PRO_START: with a certificate the node's key is not sent.
InStart(s, d, pdu) ==
    IF pdu.type = "PUBLIC_KEY"
    THEN Answer([s EXCEPT !.rcv = "PUB_KEY", !.phoneKey = pdu.key],
                IF d \in Certified THEN <<>> ELSE <<PublicKey(d)>>)
    ELSE FailCmd(s)

\* STATE_DEV_PUB_KEY
InPubKey(s, d, pdu) ==
    IF pdu.type = "CONFIRMATION"
    THEN Answer([s EXCEPT !.rcv = "CONFIRM", !.confirm = pdu.confirm],
                <<Confirmation(DevConfirm(s, d))>>)
    ELSE FailCmd(s)

\* STATE_DEV_CONFIRM: the confirmation is checked once the random is known.
InConfirm(s, d, pdu) ==
    IF pdu.type = "RANDOM" /\ s.confirm = DevConfirm(s, d)
    THEN Answer([s EXCEPT !.rcv = "RANDOM"], <<Plain("RANDOM")>>)
    ELSE FailCmd(s)

\* Mutant: the device key is not stored.
InRandomNoKey(s, d, pdu) ==
    IF pdu.type = "DATA" /\ pdu.secret = Secret(s, d)
    THEN Answer([s EXCEPT !.rcv = "SUC", !.provisioned = TRUE], <<Plain("COMPLETE")>>)
    ELSE FailCmd(s)

\* STATE_DEV_RANDOM: data that does not decrypt ends the provisioning; the rest
\* of it, mesh_provision_par_handle, stores the device key and the network.
InRandom(s, d, pdu) ==
    IF pdu.type = "DATA" /\ pdu.secret = Secret(s, d)
    THEN Answer([s EXCEPT !.rcv = "SUC", !.provisioned = TRUE, !.devKey = Secret(s, d)],
                <<Plain("COMPLETE")>>)
    ELSE FailCmd(s)

\* dispatch_pb_gatt
Dispatch(s, d, pdu) ==
    CASE s.rcv = "UNPROVISION" -> InUnprovision(s, d, pdu)
      [] s.rcv = "REC_REQ"     -> InRecReq(s, d, pdu)
      [] s.rcv = "CAPA"        -> InCapa(s, d, pdu)
      [] s.rcv = "START"       -> InStart(s, d, pdu)
      [] s.rcv = "PUB_KEY"     -> InPubKey(s, d, pdu)
      [] s.rcv = "CONFIRM"     -> InConfirm(s, d, pdu)
      [] s.rcv = "RANDOM"      -> InRandom(s, d, pdu)
      [] s.rcv = "SUC"         -> Ignore(s)

\* The states in which the node's own timeout runs: set_prov_timeout_tick at
\* START, cleared by any other event.
Timed(s) == s.rcv \in {"START", "PUB_KEY", "CONFIRM", "RANDOM"}
=============================================================================
