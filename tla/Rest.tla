--------------------------------- MODULE Rest ---------------------------------
(***************************************************************************)
(* What every HTTP handler of core shares: results and error sentinels of  *)
(* the service layer, and the status code each becomes.                    *)
(***************************************************************************)
EXTENDS Integers

CONSTANT None       \* an absent value: a field left blank, a missing row

ErrNotFound == "ErrNotFound"
ErrAlreadyExists == "ErrAlreadyExists"
ErrInvalidInput == "ErrInvalidInput"
ErrDatabase == "ErrDatabase"        \* any other error: a constraint, a lost connection

Ok(v) == [err |-> None, val |-> v]
Err(e) == [err |-> e, val |-> None]

\* pgx's ErrNoRows becomes a nil row, a nil row becomes ErrNotFound.
Found(table, id) == IF id \in DOMAIN table THEN Ok(table[id]) ELSE Err(ErrNotFound)

WriteServiceError(e) ==
    CASE e = ErrNotFound      -> 404
      [] e = ErrAlreadyExists -> 409
      [] e = ErrInvalidInput  -> 400
      [] OTHER                -> 500

Answer(res, success) == IF res.err = None THEN success ELSE WriteServiceError(res.err)

\* A body the decoder refuses (not JSON, an unknown field) never reaches the service.
DecodeJSON(in, res) == IF in.body = "bad" THEN Err(ErrInvalidInput) ELSE res

\* A field left blank on an update falls back to the stored value.
Or(new, old) == IF new = None THEN old ELSE new

Without(f, x) == [y \in DOMAIN f \ {x} |-> f[y]]
With(f, x, v) == [y \in DOMAIN f \cup {x} |-> IF y = x THEN v ELSE f[y]]
=============================================================================
