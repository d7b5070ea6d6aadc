--------------------------- MODULE PlatformAdapters ---------------------------
(***************************************************************************)
(* The publishing adapters (backend/internal/platform): what each of them  *)
(* does at the platform, in which order, which failure ends it, and what   *)
(* it takes for success.                                                   *)
(*                                                                         *)
(* Three adapters drive a browser tab: they fill a form, click and wait,   *)
(* and never look at whether the platform took the post.  Three call an    *)
(* HTTP API, whose status code tells.                                      *)
(***************************************************************************)
EXTENDS Naturals, Sequences, SequencesExt

Browser == {"xiaohongshu", "wechat", "zhihu"}
Http == {"medium", "wordpress", "webhook"}

-----------------------------------------------------------------------------
(***************************************************************************)
(* Publish: the steps of each adapter.  "submit" is the click or the POST. *)
(***************************************************************************)
XiaohongshuPublish == <<"decrypt", "open", "cookies", "form", "images", "title",
                        "content", "tags", "submit", "settle", "locate">>
WechatPublish == <<"decrypt", "open", "cookies", "form", "images", "title",
                   "content", "tags", "submit", "settle", "locate">>
ZhihuPublish == <<"decrypt", "open", "cookies", "form", "title",
                  "content", "tags", "submit", "settle", "locate">>
MediumPublish == <<"decrypt", "token", "submit", "decode">>
WordpressPublish == <<"decrypt", "submit", "decode">>
WebhookPublish == <<"decrypt", "submit">>

PublishSteps(p) ==
  CASE p = "xiaohongshu" -> XiaohongshuPublish
    [] p = "wechat"      -> WechatPublish
    [] p = "zhihu"       -> ZhihuPublish
    [] p = "medium"      -> MediumPublish
    [] p = "wordpress"   -> WordpressPublish
    [] p = "webhook"     -> WebhookPublish

\* Errors of these steps are logged or dropped: without a link to the post an
\* id is made up from the time ("pending-...", "draft-...").
NonFatal == {"tags", "locate"}

SubmitIndex(p) == CHOOSE i \in DOMAIN PublishSteps(p) : PublishSteps(p)[i] = "submit"
Prepare(p) == SubSeq(PublishSteps(p), 1, SubmitIndex(p) - 1)
Finish(p) == SubSeq(PublishSteps(p), SubmitIndex(p) + 1, Len(PublishSteps(p)))
CanFail(steps) == \E i \in DOMAIN steps : steps[i] \notin NonFatal

\* Is there a new post at the platform once submit has returned?  A click tells
\* nothing; 201 (any 2xx for a webhook) means yes; a failed request may have
\* been carried out all the same.
Posted(p, ok) == IF p \in Http /\ ok THEN {TRUE} ELSE BOOLEAN

-----------------------------------------------------------------------------
(***************************************************************************)
(* Authentication.  StartAuth opens the login page and takes the QR code,  *)
(* or hands out a form or a URL; PollAuth is pending until the user has    *)
(* done what was asked, and then fails or returns the credentials.  The    *)
(* adapters of an API never get that far, so that their Publish runs only  *)
(* for a connection that was stored in another way.                        *)
(***************************************************************************)
XiaohongshuStartAuth == <<"viewport", "login", "qr">>
WechatStartAuth == <<"viewport", "login", "qr">>
ZhihuStartAuth == <<"viewport", "login", "qr">>
MediumStartAuth == <<>>
WordpressStartAuth == <<>>
WebhookStartAuth == <<>>

StartAuthSteps(p) ==
  CASE p = "xiaohongshu" -> XiaohongshuStartAuth
    [] p = "wechat"      -> WechatStartAuth
    [] p = "zhihu"       -> ZhihuStartAuth
    [] p = "medium"      -> MediumStartAuth
    [] p = "wordpress"   -> WordpressStartAuth
    [] p = "webhook"     -> WebhookStartAuth

\* What follows when the user has scanned the code.
XiaohongshuPollAuth == <<"location", "cookies", "filter", "encrypt">>
WechatPollAuth == <<"location", "cookies", "filter", "encrypt">>
ZhihuPollAuth == <<"location", "cookies", "filter", "encrypt">>

PollAuthSteps(p) ==
  CASE p = "xiaohongshu" -> XiaohongshuPollAuth
    [] p = "wechat"      -> WechatPollAuth
    [] p = "zhihu"       -> ZhihuPollAuth

\* The results of one PollAuth.  A browser tab shows whether the code was
\* scanned.  The others wait for credentials in the session (an authorization
\* code, a form), which nothing ever puts there.
PollAuth(p) ==
  IF p \in Http THEN {"pending"}
  ELSE {"pending", "done"} \union (IF CanFail(PollAuthSteps(p)) THEN {"failed"} ELSE {})
=============================================================================
