-------------------------------- MODULE Boot --------------------------------
(***************************************************************************)
(* The classifier's way from training to an API that uses it: the training  *)
(* script pins a digest in the tree and uploads the artifact file by file;  *)
(* the model server downloads it into a volume that outlives it; the API,   *)
(* whose image holds the pin of its build, serves only after eight checks,  *)
(* of which the fourth and the fifth ask the model server, one after the    *)
(* other.                                                                   *)
(*                                                                          *)
(* A file's content is the number of the training that wrote it, 0 where    *)
(* there is no file, and stands for its digest.  Files are numbered in the  *)
(* order in which both the upload and the listing of the bucket sort them:  *)
(* config.json, model.safetensors, tokenizer.json.                          *)
(***************************************************************************)
EXTENDS Integers

CONSTANTS
    MaxTrainings, \* bound: runs of train_classifier.py
    NoFault       \* no misconfiguration

Files    == 1..3
Weights  == 2
Versions == 0..MaxTrainings
Artifact == [Files -> Versions]
Empty    == [f \in Files |-> 0]

\* What a check other than the fourth and the fifth can find wrong, with its number.
Faults  == {"vault", "secrets", "db", "langfuse", "thresholds", "prompts"}
CheckOf == [vault |-> 1, secrets |-> 2, db |-> 3, langfuse |-> 6,
            thresholds |-> 7, prompts |-> 8]

\* The API's states before its first and after its last check.
Down   == 0
Serves == 9

VARIABLES
    trained,  \* trainings so far
    out,      \* OUT_DIR on the training host
    trainer,  \* what the training script does next
    sent,     \* how many files it has uploaded
    pin,      \* WEIGHTS_SHA256 in the tree, 0 while it is empty
    store,    \* objects under classifier/v1/
    partial,  \* the last upload has not put every file
    crossed,  \* an upload and a download of this volume met
    cache,    \* files in the volume model-cache
    server,   \* what the model server does
    todo,     \* listed objects it has not dealt with
    model,    \* the files its classifier was loaded from; Empty without one
    api,      \* what the API does: the number of its next check, Down or Serves
    built,    \* WEIGHTS_SHA256 in its image
    fault,    \* what is misconfigured
    skip,     \* MC_BOOT_SKIP_CLASSIFIER
    asked     \* the server process that answered its fifth check still runs

training == <<trained, out, trainer, sent, pin>>
serving  == <<cache, server, todo, model>>
booting  == <<api, built, fault, skip>>
bucket   == <<store, partial>>
vars     == <<training, bucket, crossed, serving, booting, asked>>

TypeOK ==
    /\ trained \in Versions
    /\ out     \in Artifact
    /\ trainer \in {"idle", "saved", "pinned", "upload"}
    /\ sent    \in 0..2
    /\ pin     \in Versions
    /\ store   \in Artifact
    /\ partial \in BOOLEAN
    /\ crossed \in BOOLEAN
    /\ cache   \in Artifact
    /\ server  \in {"down", "fetch", "serve"}
    /\ todo    \subseteq Files
    /\ model   \in Artifact
    /\ api     \in Down..Serves
    /\ built   \in Versions
    /\ fault   \in Faults \cup {NoFault}
    /\ skip    \in BOOLEAN
    /\ asked   \in BOOLEAN

Init ==
    /\ trained = 0 /\ out = Empty /\ trainer = "idle" /\ sent = 0 /\ pin = 0
    /\ store = Empty /\ partial = FALSE /\ crossed = FALSE
    /\ cache = Empty /\ server = "down" /\ todo = {} /\ model = Empty
    /\ api = Down /\ built = 0 /\ fault = NoFault /\ skip = FALSE
    /\ asked = FALSE

-----------------------------------------------------------------------------
(* Training.                                                               *)

\* Mutant of Train: a tokenizer that is already there is not saved again.
TrainModelOnly ==
    /\ trainer = "idle"
    /\ trained < MaxTrainings
    /\ trained' = trained + 1
    /\ out'     = [f \in Files |-> IF f = 3 /\ out[3] # 0 THEN out[3] ELSE trained + 1]
    /\ trainer' = "saved"
    /\ UNCHANGED <<sent, pin, bucket, crossed, serving, booting, asked>>

\* The best model and its tokenizer replace the last ones in OUT_DIR.
Train ==
    /\ trainer = "idle"
    /\ trained < MaxTrainings
    /\ trained' = trained + 1
    /\ out'     = [f \in Files |-> trained + 1]
    /\ trainer' = "saved"
    /\ UNCHANGED <<sent, pin, bucket, crossed, serving, booting, asked>>

\* rewrite_registry; the model card and metrics.json follow it.
Pin ==
    /\ trainer = "saved"
    /\ pin'     = out[Weights]
    /\ trainer' = "pinned"
    /\ UNCHANGED <<trained, out, sent, bucket, crossed, serving, booting, asked>>

BeginUpload ==
    /\ trainer = "pinned"
    /\ trainer' = "upload"
    /\ UNCHANGED <<trained, out, sent, pin, bucket, crossed, serving, booting, asked>>

\* A download is under way while the server fetches, and a volume that holds
\* some of the files waits for the rest.
Downloading == server = "fetch" \/ \E f, g \in Files : cache[f] = 0 /\ cache[g] # 0

Upload ==
    /\ trainer = "upload"
    /\ store'   = [store EXCEPT ![sent + 1] = out[sent + 1]]
    /\ partial' = (sent < 2)
    /\ crossed' = (crossed \/ Downloading)
    /\ IF sent < 2 THEN trainer' = "upload" /\ sent' = sent + 1
                    ELSE trainer' = "idle" /\ sent' = 0
    /\ UNCHANGED <<trained, out, pin, serving, booting, asked>>

\* --no-upload, a store that does not answer, or the end of the process.
TrainerEnds ==
    /\ trainer # "idle"
    /\ trainer' = "idle" /\ sent' = 0
    /\ UNCHANGED <<trained, out, pin, bucket, crossed, serving, booting, asked>>

-----------------------------------------------------------------------------
(* The model server.                                                       *)

\* Classifier(): the bucket is listed.  The load can be switched off, and a
\* server without an object to load serves all the same.
StartServer ==
    /\ server = "down"
    /\ \/ server' = "fetch" /\ todo' = {f \in Files : store[f] # 0} /\ todo' # {}
       \/ server' = "serve" /\ todo' = {}
    /\ UNCHANGED <<training, bucket, crossed, cache, model, booting, asked>>

\* The next listed object: kept if the volume has it, fetched otherwise.
Fetch ==
    /\ server = "fetch"
    /\ \E f \in todo :
         /\ \A g \in todo : f <= g
         /\ todo'    = todo \ {f}
         /\ cache'   = IF cache[f] = 0 THEN [cache EXCEPT ![f] = store[f]] ELSE cache
         /\ crossed' = (crossed \/ (cache[f] = 0 /\ partial))
    /\ UNCHANGED <<training, bucket, server, model, booting, asked>>

\* Tokenizer, model and digest, all from the volume.
Load ==
    /\ server = "fetch" /\ todo = {}
    /\ \A f \in Files : cache[f] # 0
    /\ model'  = cache
    /\ server' = "serve"
    /\ UNCHANGED <<training, bucket, crossed, cache, todo, booting, asked>>

\* Whatever goes wrong in Classifier() is logged, and the server serves.
LoadFails ==
    /\ server = "fetch"
    /\ server' = "serve" /\ todo' = {}
    /\ UNCHANGED <<training, bucket, crossed, cache, model, booting, asked>>

StopServer ==
    /\ server # "down"
    /\ server' = "down" /\ todo' = {} /\ model' = Empty
    /\ asked'  = FALSE
    /\ UNCHANGED <<training, bucket, crossed, cache, booting>>

\* The operator removes the volume.
RemoveVolume ==
    /\ server = "down" /\ cache # Empty
    /\ cache'   = Empty
    /\ crossed' = FALSE
    /\ UNCHANGED <<training, bucket, server, todo, model, booting, asked>>

-----------------------------------------------------------------------------
(* The API.                                                                *)

\* The container starts, from a new build or the image it had.
StartApi(build, s, x) ==
    /\ api = Down
    /\ api'   = 1
    /\ built' = IF build THEN pin ELSE built
    /\ skip'  = s
    /\ fault' = x
    /\ UNCHANGED <<training, bucket, crossed, serving, asked>>

\* SystemExit(1), or the container is stopped; either way nothing restarts it.
StopApi ==
    /\ api # Down
    /\ api' = Down /\ fault' = NoFault /\ skip' = FALSE
    /\ asked' = FALSE
    /\ UNCHANGED <<training, bucket, crossed, serving, built>>

Pass == api' = api + 1

\* Checks 1, 2, 3, 6, 7 and 8.
Check ==
    /\ api \in 1..8 \ {4, 5}
    /\ fault # NoFault => CheckOf[fault] # api
    /\ Pass
    /\ UNCHANGED <<training, bucket, crossed, serving, built, fault, skip, asked>>

CheckLoaded ==
    /\ api = 4
    /\ skip \/ (server = "serve" /\ model # Empty)
    /\ Pass
    /\ UNCHANGED <<training, bucket, crossed, serving, built, fault, skip, asked>>

\* Mutant of CheckWeights: a server that reports no digest is let through.
CheckIfReported ==
    /\ api = 5
    /\ \/ (skip \/ built = 0) /\ asked' = FALSE
       \/ /\ ~skip /\ built # 0
          /\ server = "serve" /\ model[Weights] \in {0, built}
          /\ asked' = TRUE
    /\ Pass
    /\ UNCHANGED <<training, bucket, crossed, serving, built, fault, skip>>

\* An empty pin passes without asking.
CheckWeights ==
    /\ api = 5
    /\ \/ (skip \/ built = 0) /\ asked' = FALSE
       \/ /\ ~skip /\ built # 0
          /\ server = "serve" /\ model[Weights] = built
          /\ asked' = TRUE
    /\ Pass
    /\ UNCHANGED <<training, bucket, crossed, serving, built, fault, skip>>

Next ==
    \/ Train \/ Pin \/ BeginUpload \/ Upload \/ TrainerEnds
    \/ StartServer \/ Fetch \/ Load \/ LoadFails \/ StopServer \/ RemoveVolume
    \/ \E build, s \in BOOLEAN, x \in Faults \cup {NoFault} : StartApi(build, s, x)
    \/ StopApi \/ Check \/ CheckLoaded \/ CheckWeights

Spec == Init /\ [][Next]_vars

-----------------------------------------------------------------------------

\* An API that serves has nothing misconfigured that a check looks for, and if
\* it asked, the model server it talks to runs the pinned weights for as long as
\* that server process lives: the server may restart between the two questions,
\* with an old volume, a newer upload or no classifier at all (BootValidator,
\* checks #4 and #5).
ServesConfigured ==
    api = Serves =>
        /\ fault = NoFault
        /\ asked => model[Weights] = built /\ \A f \in Files : model[f] # 0

\* The digest covers the weights only.  That the tokenizer and the config next
\* to them come from the same training is due to nothing but the absence of an
\* upload during the download (_download_artifact, upload_artifact).
OneTraining ==
    ~crossed => \A f, g \in Files : model[f] = model[g]

=============================================================================
