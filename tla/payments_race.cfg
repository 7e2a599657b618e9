SPECIFICATION OrderlySpec
CONSTANTS
  Clients = {c1, c2}
  Invoices = {1}
  CashInvoices = {1}
  Total = 300
  Amounts = {100, 301}
  DEC = 1
  MaxPays = 2
  MaxAllocs = 2
INVARIANTS
  NoOverAllocation
  CreditsMatch
  PostedHasJournal
