---------------------------- MODULE ImageRequest ----------------------------
(***************************************************************************)
(* What the image server decides about a request before it is sent, and    *)
(* about an error answer of the provider: the code a refused call ends     *)
(* with, and whether it may be sent again (src/gpt_image_2/models.py,      *)
(* images.py, credentials.py, errors.py, api.py).                          *)
(***************************************************************************)
EXTENDS Integers, Sequences, FiniteSetsExt

CONSTANTS
    Statuses,         \* HTTP statuses the provider answers errors with
    Backoffs,         \* base delay and jitter, in units
    RetryAfters,      \* numbers in the Retry-After header
    MAX_RETRY_AFTER

ASSUME RequestAssumption ==
    /\ Statuses \subseteq Nat /\ Backoffs \subseteq Nat
    /\ RetryAfters \subseteq Int /\ MAX_RETRY_AFTER \in Nat

\* The request as it stands.  An option may be refused as invalid or as not
\* supported, a size by any of its rules, a basename when nothing usable is left
\* of it; an output directory may be relative, a file or on no root ("unusable"),
\* or lie where it cannot be looked at ("hidden").
Options == {"sound", "invalid", "unsupported"}
Sizes == {"sound", "invalid"}
Basenames == {"sound", "invalid"}
Directories == {"usable", "unusable", "hidden"}

\* The files of an edit: images within the limit, other contents within it,
\* too large, or not there.
FileStates == {"image", "other", "large", "gone"}

FilesOf(isEdit) == IF isEdit THEN FileStates ELSE {"image"}

\* A mask that differs has another size or format, or selects nothing.
Masks == {"none", "fits", "differs", "unreadable"}

\* All that is looked at before the first request; particulars is what only a
\* generation (moderation level) or an edit (list of paths) has.
Looks(isEdit) ==
    [options : Options, size : Sizes, directory : Directories,
     basename : Basenames, particulars : {"sound", "invalid"},
     files : FilesOf(isEdit),
     mask : IF isEdit THEN Masks ELSE {"none"},
     credential : BOOLEAN]

LocalErrors == {"invalid_request", "unsupported_option", "invalid_input_file",
                "invalid_mask", "missing_credential"}
ProviderRefusals == {"moderation_blocked", "user_error", "authentication_error",
                     "access_denied"}
NON_RETRYABLE_CODES == LocalErrors \cup ProviderRefusals
ERROR_CODES ==
    NON_RETRYABLE_CODES \cup
        {"rate_limited", "service_error", "api_timeout", "connection_error",
         "deadline_exceeded", "output_error", "internal_error"}

\* The checks in their order, each with the code it refuses with.  Looking at a
\* hidden directory raises an error that no validator maps.
Checks(look) ==
    << <<look.options = "invalid", "invalid_request">>,
       <<look.options = "unsupported", "unsupported_option">>,
       <<look.size = "invalid", "invalid_request">>,
       <<look.directory = "unusable", "invalid_request">>,
       <<look.directory = "hidden", "internal_error">>,
       <<look.basename = "invalid", "invalid_request">>,
       <<look.particulars = "invalid", "invalid_request">>,
       <<look.files # "image", "invalid_input_file">>,
       <<look.mask = "unreadable", "invalid_input_file">>,
       <<look.mask = "differs", "invalid_mask">>,
       <<~look.credential, "missing_credential">> >>

\* The first check that refuses gives the code.
RefusedWith(look, code) ==
    \E i \in DOMAIN Checks(look) :
        /\ Checks(look)[i] = <<TRUE, code>>
        /\ \A j \in 1 .. i - 1 : ~Checks(look)[j][1]

\* What an edit, and what a generation, may be refused with.
Refusals ==
    [isEdit \in BOOLEAN |->
        {code \in ERROR_CODES : \E look \in Looks(isEdit) : RefusedWith(look, code)}]

\* When a file is read for upload, only its size is looked at again.
Uploaded == {"image", "other"}

-----------------------------------------------------------------------------
(* Error answers. *)

RETRYABLE_STATUS == {429, 500, 502, 503, 504}

Retryable(status) == status \in RETRYABLE_STATUS

\* moderated: the answer speaks of moderation, policy or safety.
CodeOf(status, moderated) ==
    CASE status = 400 /\ moderated -> "moderation_blocked"
      [] status = 401 -> "authentication_error"
      [] status = 403 -> "access_denied"
      [] status = 429 -> "rate_limited"
      [] status \notin 400 .. 499 -> "service_error"
      [] OTHER -> "user_error"

\* The wait before a retry: what the provider asks for, up to a limit, or the
\* server's own.
Delays ==
    Backoffs \cup {Min({h, MAX_RETRY_AFTER}) : h \in {k \in RetryAfters : k >= 0}}
=============================================================================
