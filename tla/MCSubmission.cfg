CONSTANTS
    home = home
    portable = portable
    Stations <- TwoStations
    Ttl = 3
    RequestTimeout = 1
    RetrySleeps <- TickSleeps
    None = None
    Datagrams <- ShortDatagrams
    Records <- ShortRecords
    Chars <- AllChars
    Numeral <- SevenNumerals
SPECIFICATION SlowSubmission
INVARIANTS
    StationFresh
    DecodesEncodings
    FindsTheField
PROPERTIES
    Follows
