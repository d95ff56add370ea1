-------------------------------- MODULE Scram --------------------------------
(***************************************************************************)
(* The client's side of SCRAM-SHA-256 in scram.cpp, and the server's side  *)
(* as the client relies on it.  A message is the sequence of its values,   *)
(* without their keys; a digest is the record of what went into it, so two *)
(* are equal only if their inputs are.                                     *)
(***************************************************************************)
EXTENDS Base64, Decimal

generate_salted_password(password, salt, iterations) ==
  [password |-> password, salt |-> salt, iterations |-> iterations]
generate_hmac(key, input) == [hmac |-> key, input |-> input]
generate_sha(key)         == [sha |-> key]

\* What both sides compute from the salted password and the messages
ClientKey(salted)       == generate_hmac(salted, "Client Key")
Proof(salted, messages) ==
  [client_key       |-> ClientKey(salted),
   client_signature |-> generate_hmac(generate_sha(ClientKey(salted)), messages)]
ServerSignature(salted, messages) ==
  generate_hmac(generate_hmac(salted, "Server Key"), messages)

NoScram == [client_nonce |-> <<>>, client_first |-> <<>>, server_first |-> <<>>,
            server_nonce |-> <<>>, salt |-> <<>>, iterations |-> 0, password |-> ""]

generate_client_first_msg(scr, user, nonce) ==
  [scr EXCEPT !.client_nonce = nonce, !.client_first = <<user, nonce>>]

\* It throws for a message that is not resolvable.
Resolvable(scr, msg) == Len(msg) = 3 /\ IsPrefix(scr.client_nonce, msg[1])

resolve_server_first_msg(scr, msg) ==
  [scr EXCEPT !.server_first = msg, !.server_nonce = msg[1],
              !.salt = base64_decode(msg[2]), !.iterations = convert_to_num(msg[3])]

AuthMessage(scr) == <<scr.client_first, scr.server_first, scr.server_nonce>>
Salted(scr)      == generate_salted_password(scr.password, scr.salt, scr.iterations)

generate_client_final_msg(scr) ==
  [nonce |-> scr.server_nonce, proof |-> Proof(Salted(scr), AuthMessage(scr))]

verify_server_final_msg(scr, msg) == msg = ServerSignature(Salted(scr), AuthMessage(scr))
=============================================================================
