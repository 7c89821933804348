------------------------------- MODULE AuthState ------------------------------
(***************************************************************************)
(* loadAuthState() of src/auth.ts: the one-time import of a directory, the *)
(* load, the writes of credentials and keys that nobody awaits, and clear().*)
(*                                                                         *)
(* Credentials and keys stand for the pairing they belong to: a number in  *)
(* the order of pairing, 0 for none. The directory holds those of pairing  *)
(* 1, its keys file by file. A statement is in flight from its call until  *)
(* it lands or fails; one whose process has died lands or fails before the *)
(* next process is up.                                                     *)
(* Unlinking is the phone's; it may happen to any pairing but the last.    *)
(***************************************************************************)
EXTENDS Naturals, FiniteSets

CONSTANTS
  KeyFiles,     \* the files of the directory other than creds.json
  ImportSlice,  \* BATCH: keys that one INSERT of the import has
  LastPairing,  \* bound: pairings with a number of their own
  MaxFaults     \* bound: statements of saveCreds, keys.set and clear that fail

ASSUME AuthAssumption ==
  /\ ImportSlice \in Nat \ {0}
  /\ LastPairing \in Nat \ {0} /\ MaxFaults \in Nat

VARIABLES
  folder,      \* config.authDir: with its creds.json, gone, or renamed
  archivable,  \* the process may rename it
  credsRow,    \* wa.auth_creds: whose credentials, 0 without a row
  keyRows,     \* wa.auth_keys: the imported files, and the pairings it has other keys of
  loading,     \* the statement loadAuthState() awaits; "no" before, and without a process
  parsed,      \* the keys that the import under way has read from the directory
  inserted,    \* those of them that its INSERTs have been through
  creds,       \* the credentials in memory, 0 while unpaired
  saves, keyWrites,  \* writes of credentials and keys in flight
  registered,  \* WhatsApp: pairings so far
  revoked,     \* WhatsApp: the unlinked ones
  faults

authDb   == <<folder, credsRow, keyRows>>
importer == <<parsed, inserted>>
authWA   == <<registered, revoked>>
authVars == <<archivable, authDb, loading, importer, creds, saves, keyWrites, authWA, faults>>

Pairings == 1..LastPairing

AuthTypeOK ==
  /\ folder \in {"present", "absent", "archived"} /\ archivable \in BOOLEAN
  /\ credsRow \in Pairings \union {0} /\ keyRows \subseteq Pairings \union KeyFiles
  /\ loading \in {"no", "checking", "importing creds", "reading keys", "importing keys",
                  "selecting", "loaded"}
  /\ parsed \subseteq KeyFiles /\ inserted \subseteq parsed
  /\ creds \in Pairings \union {0}
  /\ saves \subseteq Pairings /\ keyWrites \subseteq Pairings
  /\ registered \in Pairings \union {0} /\ revoked \subseteq Pairings \ {LastPairing}
  /\ faults \in 0..MaxFaults

\* A first start, the start that follows an upgrade, or one of a paired bot, whose
\* directory may have been left in place.
AuthInit ==
  /\ folder \in {"present", "absent"} /\ archivable \in BOOLEAN
  /\ credsRow \in Pairings \union {0} /\ keyRows = {credsRow} \ {0}
  /\ loading = "no" /\ parsed = {} /\ inserted = {}
  /\ creds = 0 /\ saves = {} /\ keyWrites = {}
  /\ registered = IF credsRow = 0 /\ folder = "present" THEN 1 ELSE credsRow
  /\ revoked = {} /\ faults = 0

-----------------------------------------------------------------------------
(* loadAuthState(). A step of it that throws ends the process.             *)

LoadStep(from, to) ==
  /\ loading = from /\ loading' = to
  /\ UNCHANGED <<archivable, saves, keyWrites, authWA, faults>>

BeginLoad ==
  /\ saves = {} /\ keyWrites = {}
  /\ LoadStep("no", "checking") /\ UNCHANGED <<authDb, importer, creds>>

\* Mutant: a directory is imported although there are credentials.
ShouldImportAlways == folder = "present"

ShouldImport == folder = "present" /\ credsRow = 0

CheckFolder ==
  /\ LoadStep("checking", IF ShouldImport THEN "importing creds" ELSE "selecting")
  /\ UNCHANGED <<authDb, importer, creds>>

ImportCreds ==
  /\ LoadStep("importing creds", "reading keys")
  /\ credsRow' = 1
  /\ UNCHANGED <<folder, keyRows, importer, creds>>

\* A file whose name is no key's, one that cannot be read and one that does not
\* parse are skipped, whichever they are at this import.
ReadKeyFiles ==
  /\ LoadStep("reading keys", "importing keys")
  /\ parsed' \in SUBSET KeyFiles /\ inserted' = {}
  /\ UNCHANGED <<authDb, creds>>

\* What the next INSERT takes of the keys that are left.
Slices ==
  {b \in SUBSET (parsed \ inserted) :
     \/ Cardinality(b) = ImportSlice
     \/ b = parsed \ inserted /\ Cardinality(b) < ImportSlice}

\* Mutant: only the first slice is inserted.
InsertFirstSlice ==
  /\ LoadStep("importing keys", "importing keys")
  /\ inserted # parsed
  /\ \E b \in Slices : keyRows' = keyRows \union b
  /\ inserted' = parsed
  /\ UNCHANGED <<folder, credsRow, parsed, creds>>

InsertSlice ==
  /\ LoadStep("importing keys", "importing keys")
  /\ inserted # parsed
  /\ \E b \in Slices : keyRows' = keyRows \union b /\ inserted' = inserted \union b
  /\ UNCHANGED <<folder, credsRow, parsed, creds>>

\* After the last slice. A rename that fails is only logged.
ArchiveFolder ==
  /\ LoadStep("importing keys", "selecting")
  /\ inserted = parsed
  /\ folder' = IF archivable THEN "archived" ELSE folder
  /\ parsed' = {} /\ inserted' = {}
  /\ UNCHANGED <<credsRow, keyRows, creds>>

SelectCreds ==
  /\ LoadStep("selecting", "loaded")
  /\ creds' = credsRow
  /\ UNCHANGED <<authDb, importer>>

Import == ImportCreds \/ ReadKeyFiles \/ InsertSlice \/ ArchiveFolder
Load   == CheckFolder \/ Import \/ SelectCreds

-----------------------------------------------------------------------------
(* Writes under a socket                                                   *)

Written(c, k) ==
  /\ loading = "loaded"
  /\ saves' = c /\ keyWrites' = k
  /\ UNCHANGED <<archivable, authDb, loading, importer, revoked, faults>>

\* A QR code is scanned. The last number stands for every later pairing.
Pair ==
  /\ creds = 0
  /\ creds' = IF registered < LastPairing THEN registered + 1 ELSE registered
  /\ registered' = creds'
  /\ Written(saves \union {creds'}, keyWrites)

SaveCreds ==
  /\ creds # 0 /\ Written(saves \union {creds}, keyWrites)
  /\ UNCHANGED <<creds, registered>>

SetKeys ==
  /\ creds # 0 /\ Written(saves, keyWrites \union {creds})
  /\ UNCHANGED <<creds, registered>>

Fault == faults < MaxFaults /\ faults' = faults + 1

SaveEnds(p) ==
  /\ p \in saves /\ saves' = saves \ {p}
  /\ \/ credsRow' = p /\ UNCHANGED faults
     \/ UNCHANGED credsRow /\ Fault
  /\ UNCHANGED <<archivable, folder, keyRows, loading, importer, creds, keyWrites, authWA>>

KeyWriteEnds(p) ==
  /\ p \in keyWrites /\ keyWrites' = keyWrites \ {p}
  /\ \/ keyRows' = keyRows \union {p} /\ UNCHANGED faults
     \/ UNCHANGED keyRows /\ Fault
  /\ UNCHANGED <<archivable, folder, credsRow, loading, importer, creds, saves, authWA>>

WriteEnds == \E p \in Pairings : SaveEnds(p) \/ KeyWriteEnds(p)

-----------------------------------------------------------------------------
(* clear(), the phone and the end of the process                           *)

AroundClear == <<archivable, folder, loading, importer, creds, saves, keyWrites, authWA>>

\* Mutant: clear() leaves the credentials.
ClearNothing == UNCHANGED authVars

ClearKeys == keyRows' = {} /\ UNCHANGED <<AroundClear, credsRow, faults>>

ClearCreds == credsRow' = 0 /\ UNCHANGED <<AroundClear, keyRows, faults>>

ClearFails == Fault /\ UNCHANGED <<AroundClear, credsRow, keyRows>>

Unlink ==
  /\ \E p \in (1..registered) \ (revoked \union {LastPairing}) : revoked' = revoked \union {p}
  /\ UNCHANGED <<archivable, authDb, loading, importer, creds, saves, keyWrites, registered, faults>>

ForgetAuth ==
  /\ loading' = "no" /\ creds' = 0 /\ parsed' = {} /\ inserted' = {}
  /\ UNCHANGED <<archivable, authDb, saves, keyWrites, authWA, faults>>

\* clear() is called for credentials WhatsApp refused for good, which are revoked.
AuthNext ==
  \/ BeginLoad \/ Load
  \/ Pair \/ SaveCreds \/ SetKeys \/ WriteEnds
  \/ creds \in revoked /\ (ClearKeys \/ ClearCreds \/ ClearFails)
  \/ Unlink \/ ForgetAuth

AuthSpec == AuthInit /\ [][AuthNext]_authVars

-----------------------------------------------------------------------------
(* Properties.                                                             *)

\* Credentials that have been stored and still work are not replaced or lost: not
\* by the import of older ones at any later start, not by a late write, not by the
\* wipe, whatever crashes and failed statements come in between.
PairingKept ==
  [][credsRow # 0 /\ credsRow \notin revoked => credsRow' = credsRow]_authVars

\* The directory is renamed only when the database has its credentials and every
\* key that this import could read from it, whatever earlier imports were cut short
\* by a crash between two of their statements. The files it skipped go with the
\* renamed directory.
RenamedIsImported ==
  [][folder' # folder => credsRow = 1 /\ parsed \subseteq keyRows]_authVars
===============================================================================
