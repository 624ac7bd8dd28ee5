SPECIFICATION PagingSpec
CONSTANTS
    NUM_PAGES = 5
    Space = {s1, s2}
    Vpn <- MCVpn
    Vaddr <- MCVaddr
    Target = {ZeroPage, 1}
    ZeroPage = ZeroPage
    NoSpace = NoSpace
INVARIANTS
    TablePages
PROPERTIES
    IsAddressMap
