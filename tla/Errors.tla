-------------------------------- MODULE Errors ------------------------------
(***************************************************************************)
(* Errors on their way to the client: each crate wraps those of the crates *)
(* below it, and the facade (crates/api/src/error.rs) turns what arrives   *)
(* into a public error.  Most wrappers are transparent, so the source of a *)
(* wrapped error is not the error itself but that error's source.          *)
(*                                                                         *)
(* An error is the sequence of its variants, outermost first, each a pair  *)
(* of an error type and a variant.  Payloads are left out.                 *)
(***************************************************************************)
EXTENDS Naturals, Sequences

CONSTANT None

VARIABLES
    call,       \* the kind of API call that fails
    raised,     \* the error first raised
    error,      \* what it has become
    answer      \* the public error, or None

vars == <<call, raised, error, answer>>

-----------------------------------------------------------------------------
(* Error types: the variants of their own and the types they convert from, with
   the variant that wraps each. *)

(* What libmdbx reports, and the storage error the adapter makes of it. *)
MdbxErrors == {"MapFull", "KeyExist", "Other"}

Backend(e) ==
    [MapFull |-> "Full", KeyExist |-> "AlreadyExists", Other |-> "Backend"][e]

StorageErrors ==
    {"AlreadyExists", "Full", "InvalidTableName", "InvalidRange", "KeyTooLarge",
     "ValueTooLarge", "Poisoned"}

MerkleError ==
    [own   |-> {"InvalidNode", "MissingBranch", "HashMismatch", "ConflictingBranch"},
     wraps |-> {<<"Storage", "Storage">>}]

CellError ==
    [own   |-> {"RootMismatch"},
     wraps |-> {<<"Storage", "Storage">>, <<"Merkle", "Merkle">>,
                <<"CellKey", "Key">>, <<"CellValue", "Value">>}]

IndexError ==
    [own   |-> {"Corruption", "RootMismatch", "ConflictingContent"},
     wraps |-> {<<"Storage", "Storage">>, <<"Merkle", "Merkle">>,
                <<"Bitmap", "Bitmap">>, <<"Term", "Term">>}]

BranchError ==
    [own   |-> {"HandleInvalid", "Conflict", "Sealed", "CommitNumberExhausted", "RootsCellExists",
                "MissingHead", "InvalidHead", "BranchNumberExhausted", "Poisoned",
                "NoFrameToRollback"},
     wraps |-> {<<"Storage", "Storage">>, <<"Cells", "Cells">>, <<"Index", "Index">>,
                <<"Term", "Term">>, <<"CellKey", "Key">>, <<"CellValue", "Value">>}]

RecordError ==
    [own   |-> {"NotFound", "AlreadyExists", "Reserved", "InvalidArgument", "CorruptState",
                "RecordIdExhausted", "CommitUnavailable"},
     wraps |-> {<<"Storage", "Storage">>, <<"Cells", "Cells">>, <<"Branch", "Branch">>}]

QueryError ==
    [own   |-> {"InvalidQuery", "NotImplemented"},
     wraps |-> {<<"Index", "Internal">>, <<"Record", "Internal">>}]

Wraps(outer) ==
    CASE outer = "Merkle" -> MerkleError.wraps
      [] outer = "Cells"  -> CellError.wraps
      [] outer = "Index"  -> IndexError.wraps
      [] outer = "Branch" -> BranchError.wraps
      [] outer = "Record" -> RecordError.wraps
      [] outer = "Query"  -> QueryError.wraps

(* Errors of bytes: of what the client sent, or of what is stored. *)
Request == {<<"Term", "request">>, <<"CellName", "request">>, <<"CellValue", "request">>}
Stored == {<<"Term", "stored">>, <<"CellKey", "stored">>, <<"CellValue", "stored">>,
           <<"Bitmap", "stored">>}

(* Types an error of each kind of call goes through, the last one the facade's. *)
Layers(c) ==
    CASE c = "build"  -> {}
      [] c = "branch" -> {"Merkle", "Cells", "Index", "Branch"}
      [] c = "record" -> {"Merkle", "Cells", "Index", "Branch", "Record"}
      [] c = "query"  -> {"Merkle", "Cells", "Index", "Branch", "Record", "Query"}

Of(type, variants) == {<<type, v>> : v \in variants}

(* A query reads committed state only: no branch handle, no key lookup. *)
Raises(c) ==
    IF c = "build" THEN {<<"CellName", "request">>, <<"CellValue", "request">>}
    ELSE Of("Mdbx", MdbxErrors) \cup Of("Storage", StorageErrors) \cup Stored
         \cup Of("Merkle", MerkleError.own) \cup Of("Cells", CellError.own)
         \cup Of("Index", IndexError.own)
         \cup (IF c = "query"
               THEN Of("Branch", {"MissingHead", "InvalidHead"})
                    \cup Of("Record", {"CorruptState", "CommitUnavailable"})
                    \cup Of("Query", QueryError.own) \cup {<<"Term", "request">>}
               ELSE Of("Branch", BranchError.own))
         \cup (IF c = "record" THEN Of("Record", RecordError.own) ELSE {})

-----------------------------------------------------------------------------
Init == call = None /\ raised = None /\ error = <<>> /\ answer = None

Raise(c) ==
    /\ call = None \/ answer # None
    /\ \E e \in Raises(c) :
          /\ raised' = e
          /\ error' = <<IF e[1] = "Mdbx" THEN <<"Storage", Backend(e[2])>> ELSE e>>
    /\ call' = c
    /\ answer' = None

(* A record's own errors are internal to a query, except for an unavailable commit. *)
ToQuery(e) ==
    IF e[1] = <<"Record", "CommitUnavailable">> THEN <<<<"Query", "CommitUnavailable">>>>
    ELSE <<<<"Query", "Internal">>>> \o e

(* The conversion a caller's error type offers for the error it receives. *)
Convert(outer) ==
    /\ answer = None
    /\ error # <<>> /\ error[1] \notin Request
    /\ outer \in Layers(call)
    /\ \E w \in Wraps(outer) :
          /\ w[1] = error[1][1]
          /\ error' = IF outer = "Query" THEN ToQuery(error) ELSE <<<<outer, w[2]>>>> \o error
    /\ UNCHANGED <<call, raised, answer>>

(* plan.rs: a filter without a term. *)
RefuseFilter ==
    /\ answer = None
    /\ error = <<<<"Term", "request">>>>
    /\ error' = <<<<"Query", "InvalidArgument">>>> \o error
    /\ UNCHANGED <<call, raised, answer>>

-----------------------------------------------------------------------------
(* The facade. *)

FollowedNotInTheIndex ==                                    \* faulty variant
    {<<"Record", "Storage">>, <<"Record", "Cells">>, <<"Record", "Branch">>,
     <<"Branch", "Storage">>, <<"Branch", "Cells">>, <<"Branch", "Index">>,
     <<"Cells", "Storage">>, <<"Cells", "Merkle">>, <<"Index", "Storage">>,
     <<"Merkle", "Storage">>}

(* Wrappers that store_full looks through. *)
Followed ==
    {<<"Record", "Storage">>, <<"Record", "Cells">>, <<"Record", "Branch">>,
     <<"Branch", "Storage">>, <<"Branch", "Cells">>, <<"Branch", "Index">>,
     <<"Cells", "Storage">>, <<"Cells", "Merkle">>,
     <<"Index", "Storage">>, <<"Index", "Merkle">>, <<"Merkle", "Storage">>}

StoreFull(e) ==
    \E i \in DOMAIN e : /\ e[i] = <<"Storage", "Full">>
                        /\ \A j \in 1..(i - 1) : e[j] \in Followed

Internal(e) == IF StoreFull(e) THEN "StoreFull" ELSE "Internal"

ApiOfBranch(e) ==
    IF e[1][2] \in {"HandleInvalid", "Conflict", "Sealed", "NoFrameToRollback"} THEN e[1][2]
    ELSE Internal(e)

ApiOfRecord(e) ==
    IF e[1][2] \in {"NotFound", "AlreadyExists", "Reserved", "InvalidArgument", "CommitUnavailable"}
    THEN e[1][2]
    ELSE IF e[1][2] = "Branch" THEN ApiOfBranch(Tail(e))
    ELSE Internal(e)

ApiOfQuery(e) == IF e[1][2] = "Internal" THEN Internal(Tail(e)) ELSE e[1][2]

Answer ==
    /\ answer = None /\ error # <<>>
    /\ \/ call = "build"  /\ answer' = "InvalidArgument"
       \/ call = "branch" /\ error[1][1] = "Branch" /\ answer' = ApiOfBranch(error)
       \/ call = "record" /\ error[1][1] = "Record" /\ answer' = ApiOfRecord(error)
       \/ call = "query"  /\ error[1][1] = "Query"  /\ answer' = ApiOfQuery(error)
    /\ UNCHANGED <<call, raised, error>>

Next ==
    \/ \E c \in {"build", "branch", "record", "query"} : Raise(c)
    \/ \E outer \in {"Merkle", "Cells", "Index", "Branch", "Record", "Query"} : Convert(outer)
    \/ RefuseFilter
    \/ Answer

Spec == Init /\ [][Next]_vars

-----------------------------------------------------------------------------
(* Properties. *)

(* What a client should learn of an error raised. *)
Full == {<<"Storage", "Full">>, <<"Mdbx", "MapFull">>}

Conditions ==
    Of("Branch", {"HandleInvalid", "Conflict", "Sealed", "NoFrameToRollback"})
    \cup Of("Record", {"NotFound", "AlreadyExists", "Reserved", "InvalidArgument",
                       "CommitUnavailable"})
    \cup Of("Query", {"InvalidQuery", "NotImplemented"})

Meaning(e) ==
    CASE e \in Full       -> "StoreFull"
      [] e \in Conditions -> e[2]
      [] e \in Request    -> "InvalidArgument"
      [] OTHER            -> "Internal"

(* The client gets the answer that fits the error first raised, through whatever
   transparent wrappers it went: conditions to react to keep their meaning, a
   full store is always reported as such (error.rs: "Transparent internal errors
   delegate source() to their wrapped error, which can hide a source-less
   StorageError::Full"), and no fault of the stored state or of the backend is
   blamed on the client. *)
MeaningsKept == answer # None => answer = Meaning(raised)
=============================================================================
