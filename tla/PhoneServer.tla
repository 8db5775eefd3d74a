---------------------------- MODULE PhoneServer -----------------------------
(***************************************************************************)
(* The HTTPS server of the phone pages: ensure_server (net/mod.rs), which  *)
(* starts it once, on demand or at boot, and the certificate it serves     *)
(* (net/tls.rs), kept in three files and renewed when the machine has an   *)
(* address it does not name.  Each is truncated and then written, so that a *)
(* program that ends, or a write that fails, may leave the three files of  *)
(* different certificates, and one of them torn.                           *)
(***************************************************************************)
EXTENDS Naturals, FiniteSets

CONSTANTS Addresses,    \* LAN addresses the machine may have
          Ports,        \* PORT_RANGE; 0 stands for a port the system picks
          MaxCerts,     \* bound: certificates generated
          NoServer,     \* no server is running
          Cut           \* a file that was truncated and not written

ASSUME PhoneServerAssumption == /\ Ports \subseteq Nat \ {0}
                                /\ MaxCerts \in Nat
                                /\ Cut \notin 0..MaxCerts

VARIABLES ips,          \* lan_ips
          taken,        \* ports of the range other programs use
          certFile,     \* cert.pem: the number of a certificate, 0 if none
          keyFile,      \* key.pem, likewise
          sansFile,     \* cert-sans.json: the certificate whose addresses it lists
          names,        \* the addresses of each certificate generated so far
          server,       \* server_slot
          boots         \* the program has started (autostart has been decided)

serverVars == <<ips, taken, certFile, keyFile, sansFile, names, server, boots>>

Whole == 1..MaxCerts
File == Whole \union {0, Cut}

(* The port and the pair it serves; and, of its start, the addresses of    *)
(* the machine and the list they were found in.                            *)
Server == [port : Ports \union {0}, cert : Whole, key : Whole,
           for : SUBSET Addresses, list : Whole]

PhoneServerTypeOK ==
    /\ ips \subseteq Addresses /\ taken \subseteq Ports
    /\ certFile \in File /\ keyFile \in File /\ sansFile \in File
    /\ names \in [Whole -> SUBSET Addresses]
    /\ server = NoServer \/ server \in Server
    /\ boots \in BOOLEAN

PhoneServerInit ==
    /\ ips \in SUBSET Addresses /\ taken = {}
    /\ certFile = 0 /\ keyFile = 0 /\ sansFile = 0
    /\ names = [n \in Whole |-> {}]
    /\ server = NoServer /\ boots = FALSE

-----------------------------------------------------------------------------
(* The machine *)

ChangeNetwork == /\ ips' \in (SUBSET Addresses) \ {ips}
                 /\ UNCHANGED <<taken, certFile, keyFile, sansFile, names, server, boots>>

Contend == /\ server = NoServer
           /\ taken' \in (SUBSET Ports) \ {taken}
           /\ UNCHANGED <<ips, certFile, keyFile, sansFile, names, server, boots>>

ServerCrash == /\ boots
               /\ server' = NoServer /\ boots' = FALSE
               /\ UNCHANGED <<ips, taken, certFile, keyFile, sansFile, names>>

-----------------------------------------------------------------------------
(* tls.rs *)

(* try_load reads the three files, and parses only the list: it compares   *)
(* the addresses the list claims, not those of the certificate.            *)
CanLoad == /\ certFile # 0 /\ keyFile # 0
           /\ sansFile \in Whole /\ ips \subseteq names[sansFile]

(* generate writes certificate n, its key, and the addresses, in this      *)
(* order.  The first `written' of them reach the disk; a write that does   *)
(* not has truncated its file, unless it could not open it.                *)
Generate(n, written, truncated) ==
    LET Left(k, file) == IF k <= written THEN n
                         ELSE IF k = written + 1 /\ truncated THEN Cut ELSE file
    IN  /\ names' = [names EXCEPT ![n] = ips]
        /\ certFile' = Left(1, certFile)
        /\ keyFile' = Left(2, keyFile)
        /\ sansFile' = Left(3, sansFile)

Fresh == Cardinality({n \in Whole : names[n] # {}}) + 1

-----------------------------------------------------------------------------
(* ensure_server, when none is running *)

(* The first free port of the range, or the one the system picks. *)
Bound(p) == IF Ports \subseteq taken THEN p = 0
            ELSE p \in Ports \ taken /\ \A q \in Ports \ taken : p <= q

Listening(c, k, l) ==
    \E p \in Ports \union {0} :
        /\ Bound(p)
        /\ server' = [port |-> p, cert |-> c, key |-> k, for |-> ips, list |-> l]

(* RustlsConfig::from_pem refuses a torn file, and a key that is not the   *)
(* certificate's: an error is returned and nothing is started.             *)
StartFromFiles ==
    /\ server = NoServer /\ ips # {} /\ CanLoad
    /\ certFile \in Whole /\ keyFile = certFile
    /\ Listening(certFile, keyFile, sansFile)
    /\ UNCHANGED <<ips, taken, certFile, keyFile, sansFile, names>>

StartAfterGenerate ==
    /\ server = NoServer /\ ips # {} /\ ~CanLoad /\ Fresh <= MaxCerts
    /\ Generate(Fresh, 3, FALSE)
    /\ Listening(Fresh, Fresh, Fresh)
    /\ UNCHANGED <<ips, taken>>

(* A write fails, and ensure_server returns the error ... *)
GenerateFails(written, truncated) ==
    /\ server = NoServer /\ ips # {} /\ ~CanLoad /\ Fresh <= MaxCerts
    /\ Generate(Fresh, written, truncated)
    /\ UNCHANGED <<ips, taken, server>>

(* phone_create_session, and setup if the user chose autostart and a phone *)
(* is trusted.  A server that runs is kept, whatever the addresses.        *)
CreateSession == /\ boots
                 /\ \/ StartFromFiles
                    \/ StartAfterGenerate
                    \/ \E written \in 0..2, truncated \in BOOLEAN : GenerateFails(written, truncated)
                 /\ UNCHANGED boots

BootServer(autostart) ==
    /\ ~boots
    /\ boots' = TRUE
    /\ \/ /\ ~autostart
          /\ UNCHANGED <<ips, taken, certFile, keyFile, sansFile, names, server>>
       \/ /\ autostart
          /\ \/ StartFromFiles
             \/ StartAfterGenerate
             \/ \E written \in 0..2, truncated \in BOOLEAN : GenerateFails(written, truncated)

(* ... or the program ends between two writes. *)
GenerateIsCut == /\ boots
                 /\ \E written \in 0..2, truncated \in BOOLEAN : GenerateFails(written, truncated)
                 /\ boots' = FALSE

PhoneServerNext == \/ ChangeNetwork \/ Contend \/ ServerCrash
                   \/ CreateSession \/ GenerateIsCut
                   \/ \E autostart \in BOOLEAN : BootServer(autostart)

-----------------------------------------------------------------------------
(* Properties *)

(* However the writing of certificates fails or is cut off: the server     *)
(* that runs serves a whole certificate with its own key, on a port no     *)
(* other program uses, and names every address the machine had when it was *)
(* started if the list it was chosen by is its own (tls.rs:26).  The list  *)
(* is written last: one that stands beside its certificate stands beside   *)
(* the key of that certificate, so that the two can be served.             *)
ServerIsTrusted ==
    /\ server # NoServer =>
         /\ server.cert = server.key
         /\ server.port \notin taken
         /\ server.list = server.cert => server.for \subseteq names[server.cert]
    /\ sansFile \in Whole /\ certFile = sansFile => keyFile = sansFile

(* Not kept: that a certificate is served when the list covers the         *)
(* machine's addresses (tls.rs:26, "Load the persisted cert if it covers   *)
(* `ips`, else generate and persist a fresh one").  After a write that     *)
(* failed or was cut off the list may be an older certificate's: then what *)
(* is loaded is torn and the server cannot start, or it starts and names   *)
(* other addresses.                                                        *)
CoveredCertIsServed ==
    CanLoad => /\ certFile \in Whole /\ keyFile = certFile
               /\ ips \subseteq names[certFile]
=============================================================================
