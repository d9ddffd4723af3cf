\* One tab, in which two users come and go, and two reports.  A second tab
\* would meet the first only in the session, which changes at any time.
CONSTANTS
    Reports = {r1, r2}
    Workers = {w1}
    Users = {alice, bob}
    Nobody = Nobody
    Tabs = {t1}
    NoReport = NoReport
SPECIFICATION PagesLiveSpec
INVARIANTS
    OnlyOwnReports
    StoppedPageIsTrue
PROPERTY PageCatchesUp
