-------------------------- MODULE CertificateSource -------------------------
(***************************************************************************)
(* The client certificate of an HTTP client (pkg/client/http.go): read     *)
(* from a secret when the TLS configuration is made, read again by a       *)
(* handshake once the reload interval has passed, and read every time to   *)
(* sign a message that the peer verifies against the certificate of the    *)
(* connection.                                                             *)
(*                                                                         *)
(* A certificate is the version of the secret it came from. The mutex lets *)
(* one handshake at a time through; time may pass while it loads.          *)
(* External: the secret and its rotation, the API server, TLS.             *)
(***************************************************************************)
EXTENDS Integers

CONSTANTS Intervals,     \* The reload intervals to configure; 0 disables reloading.
          MaxRotations,  \* Versions of the secret: a bound.
          MaxClock       \* Time: a bound.

ASSUME CertAssumption == Intervals \subseteq Int /\ MaxRotations \in Nat /\ MaxClock \in Nat

VARIABLES
  now,        \* The clock.
  secret,     \* Its version, its form, and when it was last changed.
  ca,         \* The form of the CA secret; "unset" when none is configured.
  source,     \* The certificate source; NoCert before it is made.
  hand,       \* The handshake under the mutex.
  shown,      \* The last certificate presented, and if a load failed on the way. History.
  signed      \* The last signature and how the peer judged it. History.

certVars == <<now, secret, ca, source, hand, shown, signed>>

Cert(version, form) == [version |-> version, form |-> form]
NoCert      == Cert(0, "none")
NoHandshake == [phase |-> "idle", got |-> NoCert, read |-> 0]

CertInit ==
  /\ now = 0
  /\ secret \in [cert : {Cert(1, form) : form \in {"rsa", "ec", "broken"}}, changed : {0}]
  /\ ca \in {"unset", "good", "broken"}
  /\ source \in [current : {NoCert}, nextCheck : {0}, slow : {0}, interval : Intervals]
  /\ hand = NoHandshake
  /\ shown = [cert |-> NoCert, failed |-> FALSE, at |-> 0]
  /\ signed = "none"

Tick ==
  /\ now < MaxClock /\ now' = now + 1
  /\ UNCHANGED <<secret, ca, source, hand, shown, signed>>

Rotate ==
  /\ secret.cert.version < MaxRotations
  /\ \E form \in {"rsa", "broken"} :
       secret' = [cert |-> Cert(secret.cert.version + 1, form), changed |-> now]
  /\ UNCHANGED <<now, ca, source, hand, shown, signed>>

\* loadTLSCertificate: the secret has the type, the two entries and a matching
\* pair. An error of the API server is a failed load as well, at any time.
Loadable == secret.cert.form # "broken"

\* TLSClientConfig: the CA first, then the source with its first certificate.
Configure ==
  /\ source.current = NoCert
  /\ ca # "broken" /\ Loadable
  /\ source' = [source EXCEPT !.current = secret.cert,
                              !.nextCheck = IF source.interval > 0 THEN now + source.interval ELSE 0]
  /\ UNCHANGED <<now, secret, ca, hand, shown, signed>>

Present(cert, failed) == shown' = [cert |-> cert, failed |-> failed, at |-> now]

\* GetClientCertificate before the interval is over.
HandshakeCached ==
  /\ source.current # NoCert /\ hand = NoHandshake
  /\ source.interval <= 0 \/ now < source.nextCheck
  /\ Present(source.current, FALSE)
  /\ UNCHANGED <<now, secret, ca, source, hand, signed>>

HandshakeReloads ==
  /\ source.current # NoCert /\ hand = NoHandshake
  /\ source.interval > 0 /\ now >= source.nextCheck
  /\ hand' = [NoHandshake EXCEPT !.phase = "loading"]
  /\ UNCHANGED <<now, secret, ca, source, shown, signed>>

LoadSucceeds ==
  /\ hand.phase = "loading" /\ Loadable
  /\ hand' = [phase |-> "loaded", got |-> secret.cert, read |-> now]
  /\ UNCHANGED <<now, secret, ca, source, shown, signed>>

\* Mutant of LoadFails: the next attempt is put off as after a success.
LoadFailsWaits ==
  /\ hand.phase = "loading"
  /\ Present(source.current, TRUE)
  /\ source' = [source EXCEPT !.nextCheck = now + source.interval]
  /\ hand' = NoHandshake
  /\ UNCHANGED <<now, secret, ca, signed>>

\* The certificate at hand is kept, and the next handshake tries again.
LoadFails ==
  /\ hand.phase = "loading"
  /\ Present(source.current, TRUE)
  /\ hand' = NoHandshake
  /\ UNCHANGED <<now, secret, ca, source, signed>>

\* Mutant of StoreLoaded: the handshake gets the certificate, the source does not.
StoreLoadedForgets ==
  /\ hand.phase = "loaded"
  /\ source' = [source EXCEPT !.nextCheck = now + source.interval, !.slow = now - hand.read]
  /\ Present(hand.got, FALSE)
  /\ hand' = NoHandshake
  /\ UNCHANGED <<now, secret, ca, signed>>

StoreLoaded ==
  /\ hand.phase = "loaded"
  /\ source' = [source EXCEPT !.current = hand.got,
                              !.nextCheck = now + source.interval, !.slow = now - hand.read]
  /\ Present(hand.got, FALSE)
  /\ hand' = NoHandshake
  /\ UNCHANGED <<now, secret, ca, signed>>

\* EncodeAndSign: loads the secret itself; only RSA keys are supported.
Signable == Loadable /\ secret.cert.form = "rsa"

\* VerifyAndDecode by the peer, against the certificate of the connection.
Verify(key, cert) ==
  IF cert.form # "rsa" THEN "error" ELSE IF key = cert THEN "verified" ELSE "rejected"

\* A message is signed and sent on the connection that was made last.
SignAndSend ==
  /\ shown.cert # NoCert
  /\ signed' = IF Signable THEN Verify(secret.cert, shown.cert) ELSE "error"
  /\ UNCHANGED <<now, secret, ca, source, hand, shown>>

CertNext ==
  \/ Tick \/ Rotate \/ Configure \/ HandshakeCached \/ HandshakeReloads
  \/ LoadSucceeds \/ LoadFails \/ StoreLoaded \/ SignAndSend

CertSpec == CertInit /\ [][CertNext]_certVars
-----------------------------------------------------------------------------
\* The secret was changed no longer ago than a source may go without noticing:
\* the interval, and the time the last load took after it had read the secret.
JustRotated == secret.changed >= now - source.interval - source.slow

(***************************************************************************)
(* A handshake presents the secret's certificate, or one that was the      *)
(* secret's a reload interval ago, unless its own attempt to load failed:  *)
(* a failed load does not put off the next (http.go:186-203).              *)
(***************************************************************************)
PresentsFresh ==
  [][(shown' # shown /\ ~shown'.failed /\ source.interval > 0)
       => shown'.cert = secret.cert \/ JustRotated \/ JustRotated']_certVars

(***************************************************************************)
(* A signature made for a connection of the same moment is refused by the  *)
(* peer only when the secret has just been rotated or could not be         *)
(* reloaded: the message is signed with the secret as it is, the           *)
(* connection shows it as it was (http.go:269 and 186).                    *)
(***************************************************************************)
RefusedOnlyAfterRotation ==
  [][(signed' = "rejected" /\ signed # signed' /\ source.interval > 0 /\ shown.at = now /\ ~shown.failed)
       => JustRotated]_certVars
=============================================================================
