------------------------------ MODULE WebInputs ------------------------------
(***************************************************************************)
(* The conversions of the web client between what a person reads or types  *)
(* and what the server stores: the interval of a domain (domain-form.tsx,  *)
(* domain-panel.tsx), the age of a certificate (certificate-age.ts), the   *)
(* language and its messages (i18n.tsx), and the text of an error          *)
(* (api-error.ts). The variable is the input one of them is given; only    *)
(* the interval's two fields change under the user's hands.                *)
(***************************************************************************)
EXTENDS Integers, SequencesExt

CONSTANTS
    Interval,   \* seconds: intervals stored, and numbers typed
    MsPerDay,   \* a day, in the clock's unit
    Instant,    \* times of expiry, relative to now
    Unknown,    \* no time of expiry, or none that can be read
    MaxListed   \* bound: domains in a list to be sorted

ASSUME InputsAssumption ==
    /\ Interval \subseteq Nat
    /\ MsPerDay \in Nat \ {0} /\ Instant \subseteq Int /\ Unknown \notin Int /\ MaxListed \in Nat

VARIABLE webInput

-----------------------------------------------------------------------------
(* The interval of a domain: a preset, or a number that overrides it *)

intervalPresetOptions == {7200, 86400, 259200, 604800, 1209600, 2592000}

Empty == -1   \* the number field is empty

\* Mutant: an interval that is no preset leaves the preset alone.
PresetOnly(seconds) ==
    [preset |-> IF seconds \in intervalPresetOptions THEN seconds ELSE 7200, custom |-> Empty]

\* 0 as preset stands for "custom".
presetForInterval(seconds) ==
    IF seconds = 0 THEN [preset |-> 7200, custom |-> Empty]
    ELSE IF seconds \in intervalPresetOptions THEN [preset |-> seconds, custom |-> Empty]
    ELSE [preset |-> 0, custom |-> seconds]

\* superRefine and transform of createDomainSchema.
IntervalAccepted(form) == IF form.custom = Empty THEN form.preset # 0 ELSE form.custom >= 60
CheckInterval(form)    == IF form.custom = Empty THEN form.preset ELSE form.custom

\* How the panel words it: the largest unit that divides it.
IntervalLabel(seconds) ==
    IF seconds % 86400 = 0 THEN [number |-> seconds \div 86400, unit |-> 86400]
    ELSE IF seconds % 3600 = 0 THEN [number |-> seconds \div 3600, unit |-> 3600]
    ELSE [number |-> seconds, unit |-> 1]

ChoosePreset ==
    /\ webInput.kind = "interval"
    /\ \E p \in intervalPresetOptions \cup {0} : webInput' = [webInput EXCEPT !.form.preset = p, !.typed = TRUE]

\* A number typed turns the preset to "custom".
TypeInterval ==
    /\ webInput.kind = "interval"
    /\ \E n \in Interval \cup {Empty} :
        webInput' = [webInput EXCEPT !.form = [preset |-> IF n = Empty THEN @.preset ELSE 0, custom |-> n], !.typed = TRUE]

-----------------------------------------------------------------------------
(* The age of a certificate *)

parseCertExpiresMs(text) == IF text.valid THEN text.at ELSE Unknown

\* Mutant: rounded towards zero.
DaysTowardsZero(at) == IF at >= 0 THEN at \div MsPerDay ELSE -((-at) \div MsPerDay)

\* Math.floor; the server's own count is the same (scheduler/service.go).
WholeDays(at) == at \div MsPerDay

deriveDaysFromCertExpiry(text) ==
    IF parseCertExpiresMs(text) = Unknown THEN Unknown ELSE WholeDays(parseCertExpiresMs(text))

isCertExpired(text) == deriveDaysFromCertExpiry(text) # Unknown /\ deriveDaysFromCertExpiry(text) < 0

\* A row of the panel: the badge, the number of days and whether it says remaining or overdue.
DomainPanel(domain) ==
    LET days == deriveDaysFromCertExpiry(domain.expiry) IN
    [badge   |-> IF isCertExpired(domain.expiry) THEN "expired" ELSE domain.status,
     alarm   |-> domain.status = "error" \/ isCertExpired(domain.expiry),
     days    |-> IF days = Unknown THEN Unknown ELSE IF days < 0 THEN -days ELSE days,
     overdue |-> days # Unknown /\ days < 0]

\* Mutant: what cannot be read counts as expired long ago.
UnreadableFirst(a, b) ==
    LET ea == IF a.expiry.valid THEN a.expiry.at ELSE -1000
        eb == IF b.expiry.valid THEN b.expiry.at ELSE -1000
    IN  ea < eb \/ (ea = eb /\ a.index < b.index)

\* The comparison of sortDomainsByCertExpiryAsc.
Sooner(a, b) ==
    LET ea == parseCertExpiresMs(a.expiry)
        eb == parseCertExpiresMs(b.expiry)
    IN  IF ea = Unknown \/ eb = Unknown
        THEN (eb = Unknown /\ ea # Unknown) \/ (ea = Unknown /\ eb = Unknown /\ a.index < b.index)
        ELSE ea < eb \/ (ea = eb /\ a.index < b.index)

\* The domains of a list, each with its place in it.
Places(texts) == {[index |-> i, expiry |-> texts[i]] : i \in DOMAIN texts}

sortDomainsByCertExpiryAsc(texts) ==
    CHOOSE s \in SetToSeqs(Places(texts)) : \A i, j \in DOMAIN s : i < j => Sooner(s[i], s[j])

-----------------------------------------------------------------------------
(* Languages; a tag is a language and a region or script *)

Locale == {"zh-CN", "zh-TW", "en", "es", "fr", "de", "ru", "ar", "pt", "ja", "ko", "hi", "it"}

\* A locale, as a tag in lower case: what localStorage gives back.
TagOf(locale) == CASE locale = "zh-CN" -> <<"zh", "cn">> [] locale = "zh-TW" -> <<"zh", "tw">>
                   [] OTHER -> <<locale, "">>

\* Mutant: every Chinese is the simplified one.
NormalizeChineseAlike(tag) ==
    IF tag[1] = "zh" THEN "zh-CN" ELSE IF tag[1] \in Locale THEN tag[1] ELSE "en"

\* Chinese goes by region or script, any other language by its name; the default is English.
normalizeLocale(tag) ==
    IF tag[1] = "zh" THEN IF tag[2] \in {"", "cn", "sg", "hans"} THEN "zh-CN"
                          ELSE IF tag[2] \in {"tw", "hk", "mo", "hant"} THEN "zh-TW" ELSE "en"
    ELSE IF tag[1] \in Locale \ {"zh-CN", "zh-TW"} THEN tag[1] ELSE "en"

\* What was stored, or else the first language of the browser, whichever come after it.
detectLocale(stored, languages) ==
    IF stored # <<>> THEN normalizeLocale(stored)
    ELSE IF languages # <<>> THEN normalizeLocale(Head(languages)) ELSE "en"

\* The messages with parameters, and which.
enMessages ==
    [daysOverdue |-> {"days"}, daysRemainingValue |-> {"days"}, intervalPresetHours |-> {"hours"},
     intervalPresetDays |-> {"days"}, targetIpSummary |-> {"value"}, resolvedIpSummary |-> {"value"},
     testSuccess |-> {"name"}, currentThresholdInput |-> {"value"}, checkProgress |-> {"completed", "total"},
     checkAllSuccess |-> {"count"}, checkAllPartial |-> {"success", "total", "failed"}, checkAllFailed |-> {"count"},
     domainCheckSuccess |-> {"hostname"}, domainCheckFailed |-> {"hostname"},
     paginationSummary |-> {"from", "to", "total"}, selectedCount |-> {"count"}, bulkDeleteConfirm |-> {"count"},
     bulkEnableSuccess |-> {"count"}, bulkDisableSuccess |-> {"count"}, bulkDeleteSuccess |-> {"count"},
     bulkPartialSuccess |-> {"success", "total"}]

\* Both Chinese tables have them all; the ten other languages have these, with the same
\* parameters, and none of those that came later.
TranslatedEverywhere ==
    {"intervalPresetDays", "targetIpSummary", "resolvedIpSummary", "currentThresholdInput"}

messages(locale) ==
    [key \in IF locale \in {"zh-CN", "zh-TW"} THEN DOMAIN enMessages ELSE TranslatedEverywhere |-> enMessages[key]]

\* Mutant: a message that was not translated is its key.
TemplateOrKey(locale, key) ==
    IF locale = "en" THEN enMessages[key]
    ELSE IF key \in DOMAIN messages(locale) THEN messages(locale)[key] ELSE {"key"}

Template(locale, key) ==
    IF locale # "en" /\ key \in DOMAIN messages(locale) THEN messages(locale)[key]
    ELSE IF key \in DOMAIN enMessages THEN enMessages[key] ELSE {"key"}

\* What the calls of t give: on the panel and its form, the dashboard, the admin page.
PanelGives     == [daysOverdue |-> {"days"}, daysRemainingValue |-> {"days"}, intervalPresetHours |-> {"hours"},
                   intervalPresetDays |-> {"days"}, targetIpSummary |-> {"value"}, resolvedIpSummary |-> {"value"}]
DashboardGives == [checkAllSuccess |-> {"count"}, checkAllFailed |-> {"count"},
                   checkAllPartial |-> {"success", "total", "failed"}, checkProgress |-> {"completed", "total"},
                   domainCheckSuccess |-> {"hostname"}, domainCheckFailed |-> {"hostname"}]
AdminGives     == [bulkDeleteConfirm |-> {"count"}, bulkPartialSuccess |-> {"success", "total"},
                   bulkEnableSuccess |-> {"count"}, bulkDisableSuccess |-> {"count"}, bulkDeleteSuccess |-> {"count"},
                   selectedCount |-> {"count"}, paginationSummary |-> {"from", "to", "total"}]
PolicyGives    == [testSuccess |-> {"name"}, currentThresholdInput |-> {"value"}]
Given          == [key \in DOMAIN PanelGives \cup DOMAIN DashboardGives \cup DOMAIN AdminGives \cup DOMAIN PolicyGives |->
                     IF key \in DOMAIN PanelGives THEN PanelGives[key]
                     ELSE IF key \in DOMAIN DashboardGives THEN DashboardGives[key]
                     ELSE IF key \in DOMAIN AdminGives THEN AdminGives[key] ELSE PolicyGives[key]]

\* What is left of a template's parameters in the text shown.
interpolate(template, params) == template \ params

-----------------------------------------------------------------------------
(* Errors *)

\* The errors of the server's authentication and the status it answers them with.
AuthStatus ==
    [registrationDisabled |-> 403, invalidCredentials |-> 401, emailNotVerified |-> 403, tenantDisabled |-> 403,
     invalidToken |-> 401, tokenExpired |-> 401, resourceExists |-> 409, usernameTooShort |-> 400]

\* The messages the client knows; any other error is "other".
messageToCode ==
    {"invalidCredentials", "registrationDisabled", "emailNotVerified", "invalidToken", "tokenExpired",
     "resourceExists", "passwordTooShort", "usernameTooShort", "usernameTooLong", "usernameInvalidChars",
     "invalidRequestBody", "missingRefreshCookie", "missingBearerToken", "invalidAccessToken",
     "missingAuthenticatedUser", "adminAccessRequired", "userNotFound", "tenantNotFound", "tenantDisabled",
     "domainNotFound", "endpointNotFound", "domainAlreadyExists", "hostnameRequired", "targetIpInvalid",
     "portOutOfRange", "nameRequired", "invalidEndpointConfig", "telegramNotConfigured",
     "frontendAssetsUnavailable", "noSelectedUser"}

codeFromStatus(status) ==
    CASE status >= 500 -> "serverError" [] status = 409 -> "conflict" [] status = 404 -> "notFound"
      [] status = 403 -> "forbidden" [] status = 401 -> "unauthorized" [] status = 400 -> "badRequest"
      [] OTHER -> "none"

\* Mutant: the status comes first.
CodeByStatus(reason) ==
    IF reason.api /\ codeFromStatus(reason.status) # "none" THEN codeFromStatus(reason.status)
    ELSE IF reason.message \in messageToCode THEN reason.message ELSE "none"

\* A known message says more than a status; what is not an answer of the server has none.
codeFromReason(reason) ==
    IF ~reason.error THEN "none"
    ELSE IF reason.message \in messageToCode THEN reason.message
    ELSE IF reason.api THEN codeFromStatus(reason.status) ELSE "none"

\* Every table has every code.
localizedMessages(locale) ==
    messageToCode \cup {"badRequest", "unauthorized", "forbidden", "notFound", "conflict", "serverError"}

getLocalizedApiErrorMessage(locale, reason) ==
    LET code == codeFromReason(reason) IN
    IF code \in localizedMessages(locale) THEN code ELSE "fallback"

-----------------------------------------------------------------------------
Text     == [valid : {TRUE}, at : Instant] \cup [valid : {FALSE}, at : {0}]
ListText == {t \in Text : t.valid => t.at \in {-1, 0, MsPerDay}}
Tag      == {<<"zh", s>> : s \in {"", "cn", "sg", "tw", "hk", "mo", "hans", "hant", "xx"}}
           \cup {<<l, s>> : l \in {"en", "fr", "pt", "xx"}, s \in {"", "xx"}}
Reason   == [error : {TRUE}, api : {TRUE}, message : DOMAIN AuthStatus \cup {"other"},
            status : {400, 401, 403, 404, 409, 500, 503}]
           \cup [error : BOOLEAN, api : {FALSE}, message : {"noSelectedUser", "other"}, status : {0}]

InputsInit ==
    \/ \E s \in Interval : webInput = [kind |-> "interval", stored |-> s, form |-> presetForInterval(s), typed |-> FALSE]
    \/ \E t \in Text, s \in {"healthy", "error", "pending"} :
        webInput = [kind |-> "domain", domain |-> [expiry |-> t, status |-> s]]
    \/ \E n \in 0..MaxListed : \E l \in [1..n -> ListText] : webInput = [kind |-> "list", list |-> l]
    \/ \E l \in Locale, t \in Tag : webInput = [kind |-> "locale", locale |-> l, tag |-> t]
    \/ \E l \in Locale, k \in DOMAIN Given : webInput = [kind |-> "message", locale |-> l, key |-> k]
    \/ \E l \in Locale, r \in Reason : webInput = [kind |-> "error", locale |-> l, reason |-> r]

InputsNext == ChoosePreset \/ TypeInterval
InputsSpec == InputsInit /\ [][InputsNext]_webInput

-----------------------------------------------------------------------------
\* A domain's form that is saved as it was opened keeps the interval, preset or not; whatever
\* is accepted is at least a minute; and the panel's words for it are exact, not rounded.
IntervalKept ==
    webInput.kind = "interval" =>
        /\ (~webInput.typed /\ webInput.stored >= 60)
            => IntervalAccepted(webInput.form) /\ CheckInterval(webInput.form) = webInput.stored
        /\ IntervalAccepted(webInput.form) =>
            LET label == IntervalLabel(CheckInterval(webInput.form)) IN
            CheckInterval(webInput.form) >= 60 /\ label.number * label.unit = CheckInterval(webInput.form)

\* A certificate is shown as expired exactly from the instant it expires, a moment ago as
\* much as long ago, and the days shown never promise more than is left.
ExpiredIsShown ==
    webInput.kind = "domain" =>
        LET panel == DomainPanel(webInput.domain)
            at    == webInput.domain.expiry.at
        IN  /\ (panel.badge = "expired") = (webInput.domain.expiry.valid /\ at < 0)
            /\ panel.overdue = (panel.badge = "expired")
            /\ panel.badge = "expired" => panel.alarm /\ panel.days * MsPerDay >= -at /\ panel.days >= 1
            /\ (webInput.domain.expiry.valid /\ at >= 0)
                => panel.days * MsPerDay <= at /\ at < (panel.days + 1) * MsPerDay

\* The table lists every domain once, the next to expire first, what cannot be read last, and
\* leaves equals in the order they came.
ExpiryOrdered ==
    webInput.kind = "list" =>
        LET sorted == sortDomainsByCertExpiryAsc(webInput.list) IN
        /\ Len(sorted) = Len(webInput.list)
        /\ {sorted[i].index : i \in DOMAIN sorted} = DOMAIN webInput.list
        /\ \A i, j \in DOMAIN sorted : i < j =>
            /\ sorted[j].expiry.valid => sorted[i].expiry.valid /\ sorted[i].expiry.at <= sorted[j].expiry.at
            /\ sorted[i].expiry = sorted[j].expiry => sorted[i].index < sorted[j].index

\* The language a visitor chose is the one found again at the next visit, whatever the browser
\* prefers; and no tag leads to a language there is not.
LocaleRemembered ==
    webInput.kind = "locale" =>
        /\ detectLocale(TagOf(webInput.locale), <<webInput.tag>>) = webInput.locale
        /\ detectLocale(<<>>, <<webInput.tag, <<"fr", "">> >>) \in Locale

\* In every language, also where a message was never translated, each place in a text is
\* filled by what its caller gives.
EveryPlaceFilled ==
    webInput.kind = "message" => interpolate(Template(webInput.locale, webInput.key), Given[webInput.key]) = {}

\* An error of the server's authentication is told by its own name, and any other answer that
\* failed by its status; only what never was an answer is left to the page's own words.
ErrorsNamed ==
    webInput.kind = "error" =>
        LET told == getLocalizedApiErrorMessage(webInput.locale, webInput.reason) IN
        /\ (webInput.reason.api /\ webInput.reason.message \in DOMAIN AuthStatus) => told = webInput.reason.message
        /\ webInput.reason.api => told # "fallback"
=============================================================================
