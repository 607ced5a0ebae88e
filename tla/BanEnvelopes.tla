---------------------------- MODULE BanEnvelopes ----------------------------
(***************************************************************************)
(* The upstream's JSON envelopes, and who finds a ban in one: protocol.py  *)
(* (extract_ban_timestamp, is_ban_payload), client.py (_biz_error,         *)
(* _ban_stream_event, check_ban) and the part of StreamParser.feed for     *)
(* lines without a "v".                                                    *)
(***************************************************************************)

\* Texts are what is looked for in them: nothing, no word of a ban, or one.
Said == {"", "plain", "ban"}

\* code and biz are None, zero or an error; inner is whether data is an
\* object; muted says where is_muted is true, "no" that it is there and false.
Envelopes == [code : {"", "0", "5", "7", "40003"}, msg : Said,
              inner : BOOLEAN, biz : {"absent", "", "0", "5", "7", "40003"},
              bizMsg : Said, muted : {"absent", "no", "direct", "chat"}, until : BOOLEAN]

\* Codes that are no error, and codes of an inner object.
Fine == {"", "0"}
Biz(e) == IF e.inner /\ e.biz # "absent" THEN e.biz ELSE ""

Muted(e) == e.inner /\ e.muted \in {"direct", "chat"}

\* Whether there is a mute_until that _as_float accepts.
Expiry(e) == Muted(e) /\ e.until

IsBan(e) ==
  \/ Expiry(e)
  \/ "5" \in {e.code, Biz(e)}
  \/ e.msg = "ban" \/ (e.inner /\ e.bizMsg = "ban")
  \/ Muted(e)

\* An error event: named says that its text has a word of a ban in it.
ErrorEvent(code, named, until) ==
  [kind |-> "error", code |-> code, named |-> named, until |-> until]

NoEvent == [kind |-> "none"]
Shown(event) == IF event = NoEvent THEN <<>> ELSE <<event>>

-----------------------------------------------------------------------------

\* _biz_error: the inner code and message hide the outer ones.
BizCode(e) == IF e.inner /\ e.biz # "absent" THEN e.biz ELSE e.code
BizText(e) == IF e.inner THEN e.bizMsg ELSE e.msg
BizNamed(e) == BizText(e) = "ban" \/ Expiry(e)  \* "(suspended until ...)"

\* A bug to find: an envelope whose code is 0 is taken for a good one.
BanStreamEvent_TrustsZero(e) ==
  IF BizCode(e) \in Fine THEN NoEvent ELSE ErrorEvent(BizCode(e), BizNamed(e), Expiry(e))

BanStreamEvent(e) ==
  CASE BizCode(e) \notin Fine -> ErrorEvent(BizCode(e), BizNamed(e), Expiry(e))
    [] BizCode(e) \in Fine /\ IsBan(e) -> ErrorEvent("5", TRUE, Expiry(e))
    [] OTHER -> NoEvent

\* StreamParser.feed: the outer code, or else the inner one; the outer
\* message, or else the inner one, or else that of a ban.
FeedEnvelope(e) ==
  LET code == IF e.code \notin Fine THEN e.code ELSE Biz(e)
      text == IF e.msg # "" \/ ~e.inner THEN e.msg ELSE e.bizMsg IN
  CASE IsBan(e) -> ErrorEvent(IF code \in Fine THEN "5" ELSE code,
                              text \in {"", "ban"} \/ Expiry(e), Expiry(e))
    [] ~IsBan(e) /\ code \notin Fine -> ErrorEvent(code, FALSE, FALSE)
    [] OTHER -> NoEvent

\* check_ban: an invalid token proves nothing.
CheckBan(e) == IsBan(e) /\ "40003" \notin {e.code, Biz(e)}

\* What the raw text of a body shows: is_muted is a word of a ban.
BodyNamed(e) ==
  \/ e.msg = "ban"
  \/ e.inner /\ (e.bizMsg = "ban" \/ e.muted # "absent")

\* create_session and fetch_pow on an answer without what they asked for.
SetupError(e) ==
  IF BizCode(e) \in Fine THEN ErrorEvent("no_id", BodyNamed(e), FALSE)
                         ELSE ErrorEvent(BizCode(e), BizNamed(e), FALSE)
=============================================================================
