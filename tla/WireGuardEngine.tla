--------------------------- MODULE WireGuardEngine ---------------------------
(***************************************************************************)
(* One WireGuardPeerEngine (src/wireguard_engine.cpp): the state it keeps   *)
(* for its single remote peer, and what each entry point does to that       *)
(* state, as operators from an engine record to an engine record.           *)
(*                                                                          *)
(* The Noise handshake and the AEAD belong to the wireguard-lwip library,   *)
(* which the repository fetches at build time; only what the engine relies  *)
(* on is stated here.  A session is a natural number: a responder gives a   *)
(* fresh one to every response it creates, both ends derive the same one    *)
(* exactly when the response answers the initiation the initiator still     *)
(* remembers, and 0 stands for a keypair that is not valid.  Initiations    *)
(* are numbered too: the number is the ephemeral key and the TAI64N stamp.  *)
(***************************************************************************)
EXTENDS Naturals

(* A struct wireguard_keypair: heard is last_rx # 0, expired is             *)
(* wireguard_expired(keypair_millis, REJECT_AFTER_TIME), sent is            *)
(* sending_counter and seen the replay window.                              *)
Keypair == [session: Nat, initiator: BOOLEAN, heard: BOOLEAN,
            expired: BOOLEAN, sent: Nat, seen: SUBSET Nat]

NoKeypair == [session |-> 0, initiator |-> FALSE, heard |-> FALSE,
              expired |-> FALSE, sent |-> 0, seen |-> {}]

NewKeypair(s, initiates) ==
  [NoKeypair EXCEPT !.session = s, !.initiator = initiates]

Valid(k) == k.session # 0

Slots == {"prev", "curr", "next"}

(* pending is the handshake in progress: the initiation awaiting a          *)
(* response, or 0.  greatest is the newest initiation accepted so far.      *)
Engine == [pending: Nat, greatest: Nat, keys: [Slots -> Keypair],
           established: BOOLEAN]

NewEngine ==
  [pending |-> 0, greatest |-> 0, keys |-> [slot \in Slots |-> NoKeypair],
   established |-> FALSE]

(***************************************************************************)
(* The library.                                                             *)
(***************************************************************************)

(* add_new_keypair: an initiator's keypair is current at once; a            *)
(* responder's waits in next until it is first used, and prev is destroyed. *)
AddKeypair(keys, s, initiates) ==
  IF initiates
  THEN [keys EXCEPT !["prev"] = IF Valid(keys["next"])
                                THEN keys["next"] ELSE keys["curr"],
                    !["curr"] = NewKeypair(s, TRUE),
                    !["next"] = NoKeypair]
  ELSE [keys EXCEPT !["prev"] = NoKeypair,
                    !["next"] = NewKeypair(s, FALSE)]

(* wireguard_start_session also destroys the handshake.                     *)
StartSession(e, s, initiates) ==
  [e EXCEPT !.pending = 0, !.keys = AddKeypair(@, s, initiates)]

(* keypair_update: first data received under next makes it current.         *)
KeypairUpdate(keys, slot) ==
  IF slot = "next"
  THEN [keys EXCEPT !["prev"] = keys["curr"], !["curr"] = keys["next"],
                    !["next"] = NoKeypair]
  ELSE keys

(* wireguard_process_initiation_message refuses a time stamp that is not    *)
(* greater than the greatest one accepted from this peer.                   *)
FreshInitiation(e, init) == init > e.greatest

(* wireguard_check_replay refuses a counter it has accepted before.         *)
NotReplayed(k, counter) == counter \notin k.seen

(***************************************************************************)
(* The engine.                                                              *)
(***************************************************************************)

(* create_handshake_initiation() forgets a previous initiation.             *)
Initiate(e, init) == [e EXCEPT !.pending = init]

(* Mutant: the responder starts its session with the initiator's role.      *)
AcceptInitiationAsInitiator(e, init, s) ==
  [StartSession([e EXCEPT !.greatest = init], s, TRUE)
     EXCEPT !.established = TRUE]

(* handle_packet(), MESSAGE_HANDSHAKE_INITIATION: respond, start a          *)
(* responder session s.                                                     *)
AcceptInitiation(e, init, s) ==
  [StartSession([e EXCEPT !.greatest = init], s, FALSE)
     EXCEPT !.established = TRUE]

(* Mutant: any response is taken while a handshake is pending.              *)
MatchesAnyPending(e, init) == e.pending # 0

(* handle_packet(), MESSAGE_HANDSHAKE_RESPONSE: only a response to the      *)
(* initiation still pending is matched by peer_lookup_by_handshake.         *)
MatchesPending(e, init) == e.pending # 0 /\ init = e.pending

AcceptResponse(e, s) ==
  [StartSession(e, s, TRUE) EXCEPT !.established = TRUE]

(* Mutant: wireguard_check_replay is not called.                            *)
ReceiversUnchecked(e, s, counter) ==
  {slot \in Slots : /\ Valid(e.keys[slot])
                    /\ e.keys[slot].session = s
                    /\ ~e.keys[slot].expired}

(* handle_packet(), MESSAGE_TRANSPORT_DATA: the slots whose keypair takes a *)
(* packet of session s with this counter (at most one slot holds s).        *)
Receivers(e, s, counter) ==
  {slot \in Slots : /\ Valid(e.keys[slot])
                    /\ e.keys[slot].session = s
                    /\ ~e.keys[slot].expired
                    /\ NotReplayed(e.keys[slot], counter)}

AcceptData(e, slot, counter) ==
  LET heard == [e.keys EXCEPT ![slot].seen = @ \cup {counter},
                              ![slot].heard = TRUE]
  IN [e EXCEPT !.keys = KeypairUpdate(heard, slot), !.established = TRUE]

(* Mutant: encrypt_ip_packet() uses the newest keypair there is.            *)
SendSlotNewest(e) == IF Valid(e.keys["next"]) THEN "next" ELSE "curr"

(* encrypt_ip_packet(): a responder that has heard nothing under its        *)
(* current keypair falls back to the previous one.                          *)
SendSlot(e) ==
  IF /\ Valid(e.keys["curr"])
     /\ ~e.keys["curr"].initiator
     /\ ~e.keys["curr"].heard
  THEN "prev" ELSE "curr"

SendKeypair(e) == e.keys[SendSlot(e)]

(* Otherwise encrypt_ip_packet() throws.                                    *)
CanEncrypt(e) == Valid(SendKeypair(e)) /\ ~SendKeypair(e).expired

CountSent(e) == [e EXCEPT !.keys[SendSlot(e)].sent = @ + 1]
=============================================================================
